---- MODULE Spec2Model ----
(***************************************************************************)
(* A model of the PtrHash minimal perfect hash index of learned-kv         *)
(* (ptr_hash_patched) and of the query paths built on it.                  *)
(*                                                                         *)
(* Machine words are WordBits wide instead of 64: every wrapping           *)
(* multiplication is taken modulo Word = 2^WordBits and every              *)
(* "multiply and keep the high word" keeps the bits above WordBits.        *)
(* Pilots are PilotBits wide instead of 8, so a bucket has 2^PilotBits     *)
(* candidate pilots instead of 256.                                        *)
(* Floating point parameters (alpha, lambda) are exact rationals           *)
(* <<numerator, denominator>>.                                             *)
(***************************************************************************)
EXTENDS Integers, Sequences, FiniteSets, TLC

(***************************************************************************)
(* Bounds of the model.                                                    *)
(***************************************************************************)
WordBits == 6
MaxKey == 4
MaxN == 3
MaxSeed == 2
PilotBits == 2
MaxUB == 3
MaxBatch == 2
MaxB == 2
MaxStream == 2
MaxFileLen == 2
MaxCell == 1
MaxEdits == 2
MaxLoad == 3
MaxThreads == 2
MaxChain == 40
MaxKick == 2
MaxStack == 3
MaxWorkers == 2
MaxShardKeys == 2
MaxParts == 2

(***************************************************************************)
(* Program constants.                                                      *)
(***************************************************************************)
MAX_TRIES == 10
RecentLen == 16
SmallN == 10000
EvictionFactor == 10
\* hash::C = 0x517cc1b727220a95; a wrapping product of WordBits bits depends
\* on the low WordBits bits of C only, so its low 12 bits (0xa95) are kept.
CLow == 2709

RECURSIVE Pow2(_)
Pow2(k) == IF k = 0 THEN 1 ELSE 2 * Pow2(k - 1)

Word == Pow2(WordBits)
\* let kmax = 256: the number of values of a u8 pilot
kmax == Pow2(PilotBits)
C == CLow % Word

Keys == 0 .. MaxKey
Seeds == 0 .. MaxSeed
\* the values of p0 = rng.u8(..)
P0s == 0 .. kmax - 1

Max(a, b) == IF a >= b THEN a ELSE b
Min(a, b) == IF a <= b THEN a ELSE b
SetMin(S) == CHOOSE x \in S : \A y \in S : x <= y

RECURSIVE SortedSeq(_)
SortedSeq(S) == IF S = {} THEN <<>>
                ELSE LET m == SetMin(S) IN <<m>> \o SortedSeq(S \ {m})

\* usize::is_power_of_two
RECURSIVE IsPowerOfTwo(_)
IsPowerOfTwo(x) == IF x = 0 THEN FALSE
                   ELSE IF x = 1 THEN TRUE
                   ELSE IF x % 2 = 1 THEN FALSE
                   ELSE IsPowerOfTwo(x \div 2)

\* bitwise exclusive or of two naturals
RECURSIVE XorRec(_, _)
XorRec(a, b) == IF a = 0 THEN b
                ELSE IF b = 0 THEN a
                ELSE ((a + b) % 2) + 2 * XorRec(a \div 2, b \div 2)

XorLimit == Max(Word, kmax) - 1
XorTbl == [a \in 0 .. XorLimit |-> [b \in 0 .. XorLimit |-> XorRec(a, b)]]
Xor(a, b) == XorTbl[a][b]

(***************************************************************************)
(* util::mul_high and the reducers.                                        *)
(***************************************************************************)
mul_high(a, b) == (a * b) \div Word

\* FastReduce::reduce
FastReduce(d, h) == mul_high(d, h)

\* FastReduce::reduce_with_remainder
reduce_with_remainder(d, h) == <<(d * h) \div Word, (d * h) % Word>>

\* FM32: reduction into [0, d) by a precomputed multiplicative inverse
FM32(d, h) == LET m == ((Word - 1) \div d) + 1
                  lowbits == (m * h) % Word
              IN  (lowbits * d) \div Word

(***************************************************************************)
(* Hashers.  Every hasher yields a one-word hash, so low() = high().       *)
(***************************************************************************)
Hashers == {"FastIntHash", "NoHash", "Stub"}

\* Hasher::finish of the generic KeyHasher implementation.  FastIntHash is
\* FxHasher64 (one multiplication by C); "Stub" is a caller-supplied hasher
\* that does not tell the keys 2i and 2i + 1 apart.
finish(hx, key) ==
    CASE hx = "FastIntHash" -> (key * C) % Word
      [] hx = "Stub"        -> ((key \div 2) * C) % Word

\* KeyHasher::hash
hash(hx, key, seed) ==
    IF hx = "NoHash" THEN Xor(key, seed)
    ELSE Xor(finish(hx, key), seed)

low(h) == h
high(h) == h

(***************************************************************************)
(* State.                                                                  *)
(***************************************************************************)
VARIABLES
    keys,      \* the key set handed to the constructor
    hx,        \* the hasher Hx
    api,       \* the constructor that was called
    params,    \* PtrHashParams
    ph,        \* the PtrHash struct (self)
    tries,     \* compute_pilots: tries
    pilots,    \* compute_pilots: the local pilots vector
    taken,     \* compute_pilots: the local taken bitmaps, one per part
    shard,     \* compute_pilots: index of the shard being processed
    bp,        \* build_part: its locals
    pc,        \* position in the constructor
    outcome,   \* what the constructor returned
    q,         \* the last query and its result
    keys_len,  \* keys.len() of the slice handed to the constructor
    path,      \* write_with_integrity / read_with_validation: the path argument
    data,      \* write_with_integrity: the PersistedData argument
    prev,      \* the file at path before the call
    fs,        \* the file system: the file at each path
    writer,    \* the AtomicWriter
    fpc,       \* position in write_with_integrity / read_with_validation
    saved,     \* what write_with_integrity returned
    edits,     \* number of cells of the saved file overwritten by others
    rd,        \* what read_with_validation returned
    map,       \* new_with_hasher: the HashMap argument
    store,     \* the VerifiedKvStore
    orig,      \* what the store answered before it was saved and loaded
    th,        \* the threads that share the store: the locals of their calls
    sh,        \* the shard iterator: what it yielded, its files and workers
    parked,    \* build_shard: the locals of the build_part calls that are not running
    twin,      \* what an earlier call of build_part on the same hashes and seed wrote
    chain,     \* build_part: what the pops of the current eviction chain did, oldest first
    saves      \* two save_to_file calls at work on one directory

\* the files and the persistence calls
fileVars == <<path, data, prev, fs, writer, fpc, saved, edits, rd>>

\* the state outside the PtrHash constructors and queries
storeVars == <<keys_len, fileVars, map, store, orig, th, sh, parked, twin, chain, saves>>

\* the state of the PtrHash constructors and queries
phVars == <<keys, hx, api, params, ph, tries, pilots, taken, shard, bp, pc, outcome, q,
            keys_len>>

vars == <<keys, hx, api, params, ph, tries, pilots, taken, shard, bp, pc, outcome, q,
          storeVars>>

BucketIdxNONE == 0 - 1
NoPilot == 0 - 1

\* PtrHashParams::default_fast.  keys_per_shard is 1 << 31 in the source; it
\* is one less here, the largest integer TLC has, and is read only when
\* sharding is not None.
default_fast == [remap |-> TRUE, alpha |-> <<99, 100>>, lambda |-> <<3, 1>>,
                 bucket_fn |-> "Linear", keys_per_shard |-> 2147483647,
                 sharding |-> "None", single_part |-> FALSE]

Alphas == {<<99, 100>>, <<1, 2>>}

Apis == {"new", "try_new", "new_from_par_iter", "store"}

\* the parameter values the constructors are called with
ParamSets == {[default_fast EXCEPT !.remap = r, !.alpha = a, !.single_part = sp] :
                 r \in BOOLEAN, a \in Alphas, sp \in BOOLEAN}

CeilDiv(a, b) == a \div b + (IF a % b = 0 THEN 0 ELSE 1)

(***************************************************************************)
(* PtrHash::init                                                           *)
(***************************************************************************)
MAX_REASONABLE_BUCKETS == 100000000
MAX_REASONABLE_SLOTS == 1000000000

\* the size heuristic (n / 50000).max(1.0), floored
SizeHeuristic(n) == Max(n \div 50000, 1)

\* f64::ln in fixed point: the argument is rounded to MantBits bits and the
\* logarithm has FracBits fractional bits
MantBits == 14
FracBits == 10

RECURSIVE floor_log2(_)
floor_log2(v) == IF v < 2 THEN 0 ELSE 1 + floor_log2(v \div 2)

\* the leading MantBits + 1 bits of v
mantissa(v) ==
    IF floor_log2(v) >= MantBits THEN v \div Pow2(floor_log2(v) - MantBits)
    ELSE v * Pow2(MantBits - floor_log2(v))

\* the first k fractional bits of log2 of a mantissa, by repeated squaring
RECURSIVE log2_frac(_, _)
log2_frac(m, k) ==
    IF k = 0 THEN 0
    ELSE LET sq == (m * m) \div Pow2(MantBits)
         IN  IF sq >= Pow2(MantBits + 1)
             THEN Pow2(k - 1) + log2_frac(sq \div 2, k - 1)
             ELSE log2_frac(sq, k - 1)

\* ln(v) * 2^FracBits for an integer v >= 1, with ln 2 = 45426 / 65536
ln_fixed(v) ==
    ((floor_log2(v) * Pow2(FracBits) + log2_frac(mantissa(v), FracBits)) * 45426)
        \div 65536

\* <<quotient, remainder>> of a * b by c, without forming a * b
RECURSIVE MulDiv(_, _, _)
MulDiv(a, b, c) ==
    IF b = 0 THEN <<0, 0>>
    ELSE LET h == MulDiv(a, b \div 2, c)
             t == 2 * h[2] + (b % 2) * a
         IN  <<2 * h[1] + t \div c, t % c>>

\* target_parts.floor() of init for n >= 10000. x = n * eps^2 / 2 with
\* eps = (1 - alpha) / 2 is the fraction num / den; candidate = x / x.ln()
target_parts(n, alpha) ==
    LET num == n * (alpha[2] - alpha[1]) * (alpha[2] - alpha[1])
        den == 8 * alpha[2] * alpha[2]
        x_ln == ln_fixed(num) - ln_fixed(den)
        candidate == MulDiv(Pow2(FracBits), num, den * x_ln)
    IN  IF num <= den \/ x_ln <= 0 THEN SizeHeuristic(n)
        ELSE IF candidate[1] > 1000000
                \/ (candidate[1] = 1000000 /\ candidate[2] > 0)
             THEN SizeHeuristic(n)
             ELSE candidate[1]

init_shards(n, p) ==
    IF p.single_part THEN 1
    ELSE IF p.sharding = "None" THEN 1
    ELSE CeilDiv(n, p.keys_per_shard)

init_parts(n, p) ==
    IF p.single_part THEN 1
    ELSE IF n < SmallN THEN 1
    ELSE Max(target_parts(n, p.alpha) \div init_shards(n, p), 1) * init_shards(n, p)

\* init with keys_per_part / alpha rounded up
init_slots_per_part_rounded_up(n, p) ==
    LET keys_per_part == n \div init_parts(n, p)
        s == CeilDiv(keys_per_part * p.alpha[2], p.alpha[1])
    IN  IF IsPowerOfTwo(s) THEN s + 1 ELSE s

init_slots_per_part(n, p) ==
    LET keys_per_part == n \div init_parts(n, p)
        \* keys_per_part / alpha, floored; the product is not formed
        s == (keys_per_part \div p.alpha[1]) * p.alpha[2]
             + ((keys_per_part % p.alpha[1]) * p.alpha[2]) \div p.alpha[1]
    IN  IF IsPowerOfTwo(s) THEN s + 1 ELSE s

\* init without the three extra buckets
init_buckets_per_part_no_extra(n, p) ==
    LET keys_per_part == n \div init_parts(n, p)
    IN  CeilDiv(keys_per_part * p.lambda[2], p.lambda[1])

init_buckets_per_part(n, p) ==
    LET keys_per_part == n \div init_parts(n, p)
    IN  CeilDiv(keys_per_part * p.lambda[2], p.lambda[1]) + 3

init_panics(n, p) ==
    \/ init_parts(n, p) * init_buckets_per_part(n, p) > MAX_REASONABLE_BUCKETS
    \/ init_parts(n, p) * init_slots_per_part(n, p) > MAX_REASONABLE_SLOTS

init(n, p) ==
    [n               |-> n,
     parts           |-> init_parts(n, p),
     shards          |-> init_shards(n, p),
     parts_per_shard |-> init_parts(n, p) \div init_shards(n, p),
     slots_total     |-> init_parts(n, p) * init_slots_per_part(n, p),
     buckets_total   |-> init_parts(n, p) * init_buckets_per_part(n, p),
     slots           |-> init_slots_per_part(n, p),
     buckets         |-> init_buckets_per_part(n, p),
     seed            |-> 0,
     pilots          |-> <<>>,
     remap           |-> <<>>]

\* PtrHash::default: the struct before any constructor ran
EmptyPtrHash ==
    [n |-> 0, parts |-> 0, shards |-> 0, parts_per_shard |-> 0, slots_total |-> 0,
     buckets_total |-> 0, slots |-> 0, buckets |-> 0, seed |-> 0,
     pilots |-> <<>>, remap |-> <<>>]

(***************************************************************************)
(* Hash, part, bucket and slot of a key (lib.rs, the private helpers).     *)
(***************************************************************************)
hash_key(x) == hash(hx, x, ph.seed)

hash_pilot(p) == (C * Xor(p, ph.seed)) % Word

part(h) == FastReduce(ph.parts, high(h))

shard_of(h) == FastReduce(ph.shards, high(h))

bucket_fn_call(x) ==
    CASE params.bucket_fn = "Linear" -> x
      [] params.bucket_fn = "Square" -> mul_high(x, x)

bucket_in_part(x) ==
    IF params.bucket_fn = "Linear" THEN FastReduce(ph.buckets, x)
    ELSE FastReduce(ph.buckets, bucket_fn_call(x))

bucket(h) ==
    IF params.bucket_fn = "Linear" THEN FastReduce(ph.buckets_total, high(h))
    ELSE LET r == reduce_with_remainder(ph.parts, high(h))
         IN  r[1] * ph.buckets + bucket_in_part(r[2])

\* rem_slots = RemSlots::new(slots_per_part.max(1))
slot_in_part_hp(h, hp) == FM32(Max(ph.slots, 1), Xor(low(h), hp))

slot_in_part(h, pilot) == slot_in_part_hp(h, hash_pilot(pilot))

slot(h, pilot) == part(h) * ph.slots + slot_in_part(h, pilot)

(***************************************************************************)
(* The shard iterator, sort_parts and sort_buckets.                        *)
(***************************************************************************)
\* no_sharding: the hashes of all keys under the current seed
shard_hashes == [k \in keys |-> hash_key(k)]

\* sort_parts finds two equal hashes in the sorted shard: two keys with the
\* same hash, or a key that occurs twice in the slice
has_duplicate_hashes ==
    \/ \E k1, k2 \in keys : k1 # k2 /\ shard_hashes[k1] = shard_hashes[k2]
    \/ keys_len > Cardinality(keys)

\* the hashes of a part: the slice part_starts[part] .. part_starts[part + 1]
part_hashes(pt) == {h \in {shard_hashes[k] : k \in keys} : part(h) = pt}

\* sort_buckets: the hashes of each bucket of the part, in increasing order
sort_buckets_starts(pt) ==
    [b \in 0 .. ph.buckets - 1 |->
        SortedSeq({h \in part_hashes(pt) : bucket(h) = pt * ph.buckets + b})]

\* sort_buckets: the buckets by decreasing size, equal sizes by increasing index
RECURSIVE order_from(_, _)
order_from(bk, todo) ==
    IF todo = {} THEN <<>>
    ELSE LET b == CHOOSE x \in todo : \A y \in todo :
                      \/ Len(bk[x]) > Len(bk[y])
                      \/ (Len(bk[x]) = Len(bk[y]) /\ x <= y)
         IN  <<b>> \o order_from(bk, todo \ {b})

sort_buckets_order(bk) == order_from(bk, DOMAIN bk)

(***************************************************************************)
(* build_part: the locals and the pilot search.                            *)
(***************************************************************************)
NoPart == [active |-> FALSE]

bucket_len(b) == Len(bp.bucket[b])

\* b_slots / slots_for_bucket: the slots of bucket b under pilot p
slots_for_bucket(b, p) ==
    [i \in 1 .. Len(bp.bucket[b]) |-> slot_in_part_hp(bp.bucket[b][i], hash_pilot(p))]

\* duplicate_slots
duplicate_slots(b, p) ==
    LET sl == slots_for_bucket(b, p)
    IN  \E i, j \in DOMAIN sl : i < j /\ sl[i] = sl[j]

\* try_take_pilot without the rollback of the slots already taken when a
\* later slot of the bucket collides
RECURSIVE try_take_from_no_rollback(_, _, _)
try_take_from_no_rollback(sl, tk, i) ==
    IF i > Len(sl) THEN [ok |-> TRUE, taken |-> tk]
    ELSE IF tk[sl[i]]
         THEN [ok |-> FALSE, taken |-> tk]
         ELSE try_take_from_no_rollback(sl, [tk EXCEPT ![sl[i]] = TRUE], i + 1)

\* try_take_pilot: [ok, taken]
RECURSIVE try_take_from(_, _, _)
try_take_from(sl, tk, i) ==
    IF i > Len(sl) THEN [ok |-> TRUE, taken |-> tk]
    ELSE IF tk[sl[i]]
         THEN \* collision within the bucket: clear entries 1 .. i - 1
              [ok |-> FALSE,
               taken |-> [s \in DOMAIN tk |->
                             IF \E j \in 1 .. i - 1 : sl[j] = s THEN FALSE ELSE tk[s]]]
         ELSE try_take_from(sl, [tk EXCEPT ![sl[i]] = TRUE], i + 1)

try_take_pilot(b, p, tk) == try_take_from(slots_for_bucket(b, p), tk, 1)

\* find_pilot_slice that accepts a pilot as soon as its slots are free,
\* without try_take_pilot's test for two keys of the bucket on one slot
RECURSIVE find_pilot_in_free_only(_, _, _, _)
find_pilot_in_free_only(b, tk, lo, hi) ==
    IF hi - lo = 1
    THEN LET sl == slots_for_bucket(b, lo)
         IN  IF \E i \in DOMAIN sl : tk[sl[i]]
             THEN [p |-> NoPilot, taken |-> tk]
             ELSE [p |-> lo,
                   taken |-> [s \in DOMAIN tk |->
                                 tk[s] \/ \E i \in DOMAIN sl : sl[i] = s]]
    ELSE LET mid   == (lo + hi) \div 2
             first == find_pilot_in_free_only(b, tk, lo, mid)
         IN  IF first.p # NoPilot THEN first
             ELSE find_pilot_in_free_only(b, first.taken, mid, hi)

\* find_pilot_slice, the loop 'p over the pilots lo .. hi - 1 in increasing
\* order, stopping at the first pilot whose slots are all free and distinct
RECURSIVE find_pilot_in(_, _, _, _)
find_pilot_in(b, tk, lo, hi) ==
    IF hi - lo = 1
    THEN LET sl == slots_for_bucket(b, lo)
         IN  IF \E i \in DOMAIN sl : tk[sl[i]]
             THEN [p |-> NoPilot, taken |-> tk]
             ELSE LET r == try_take_pilot(b, lo, tk)
                  IN  IF r.ok THEN [p |-> lo, taken |-> r.taken]
                      ELSE [p |-> NoPilot, taken |-> r.taken]
    ELSE LET mid   == (lo + hi) \div 2
             first == find_pilot_in(b, tk, lo, mid)
         IN  IF first.p # NoPilot THEN first
             ELSE find_pilot_in(b, first.taken, mid, hi)

\* find_pilot that never tries pilot 0
find_pilot_skip_zero(b, tk) == find_pilot_in(b, tk, 1, kmax)

find_pilot(b, tk) == find_pilot_in(b, tk, 0, kmax)

\* the scoring loop without the test recent.contains(&s)
RECURSIVE score_from_any_victim(_, _, _, _)
score_from_any_victim(sl, i, acc, best0) ==
    IF i > Len(sl) THEN acc
    ELSE LET s == bp.slots[sl[i]]
         IN  IF s = BucketIdxNONE THEN score_from_any_victim(sl, i + 1, acc, best0)
             ELSE LET sc == acc + bucket_len(s) * bucket_len(s)
                  IN  IF best0 # NoPilot /\ sc >= best0 THEN 0 - 1
                      ELSE score_from_any_victim(sl, i + 1, sc, best0)

\* the scoring loop of one candidate pilot: -1 for "continue 'p", else the score
RECURSIVE score_from(_, _, _, _)
score_from(sl, i, acc, best0) ==
    IF i > Len(sl) THEN acc
    ELSE LET s == bp.slots[sl[i]]
         IN  IF s = BucketIdxNONE THEN score_from(sl, i + 1, acc, best0)
             ELSE IF \E r \in DOMAIN bp.recent : bp.recent[r] = s THEN 0 - 1
             ELSE LET sc == acc + bucket_len(s) * bucket_len(s)
                  IN  IF best0 # NoPilot /\ sc >= best0 THEN 0 - 1
                      ELSE score_from(sl, i + 1, sc, best0)

\* one iteration of the loop over delta that keeps the first pilot it may
\* choose, whatever the scores of the later ones
best_step_first_allowed(b, p0, delta, st) ==
    LET p  == (p0 + delta) % kmax
        sc == score_from(slots_for_bucket(b, p), 1, 0, NoPilot)
    IN  IF st.best[2] # NoPilot THEN st
        ELSE IF sc = 0 - 1 THEN st
        ELSE IF duplicate_slots(b, p) THEN st
        ELSE [best |-> <<sc, p>>, done |-> FALSE]

\* one iteration of the loop 'p over delta; st = [best, done]
\* best = (collision score, pilot), with NoPilot for usize::MAX / u64::MAX
best_step(b, p0, delta, st) ==
    LET p  == (p0 + delta) % kmax
        sc == score_from(slots_for_bucket(b, p), 1, 0, st.best[1])
    IN  IF sc = 0 - 1 THEN st
        ELSE IF duplicate_slots(b, p) THEN st
        ELSE [best |-> <<sc, p>>, done |-> sc = bp.new_b_len * bp.new_b_len]

\* the iterations lo .. hi - 1 of the loop over delta, in increasing order
RECURSIVE best_in(_, _, _, _, _)
best_in(b, p0, lo, hi, st) ==
    IF st.done THEN st
    ELSE IF hi - lo = 1 THEN best_step(b, p0, lo, st)
    ELSE LET mid == (lo + hi) \div 2
         IN  best_in(b, p0, mid, hi, best_in(b, p0, lo, mid, st))

best_pilot(b, p0) ==
    best_in(b, p0, 0, kmax, [best |-> <<NoPilot, NoPilot>>, done |-> FALSE]).best

\* BinaryHeap::pop on (len, bucket) pairs: the largest pair
heap_top(st) ==
    CHOOSE i \in DOMAIN st : \A j \in DOMAIN st :
        \/ st[i][1] > st[j][1]
        \/ (st[i][1] = st[j][1] /\ st[i][2] >= st[j][2])

\* a pop that leaves the heap as it was
heap_remove_nothing(st, i) == st

heap_remove(st, i) == [j \in 1 .. Len(st) - 1 |-> IF j < i THEN st[j] ELSE st[j + 1]]

\* the locals of build_part when it starts on part pt
begin_part(pt, pt_in_shard) ==
    LET bk == sort_buckets_starts(pt)
    IN  [active        |-> TRUE,
         part          |-> pt,
         part_in_shard |-> pt_in_shard,
         bucket        |-> bk,
         order         |-> sort_buckets_order(bk),
         i             |-> 1,
         stack         |-> <<>>,
         slots         |-> [s \in 0 .. ph.slots - 1 |-> BucketIdxNONE],
         recent        |-> [r \in 0 .. RecentLen - 1 |-> BucketIdxNONE],
         recent_idx    |-> 0,
         evictions     |-> 0,
         new_b_len     |-> 0]

\* the pass that clears the slots of an evicted bucket in the slots table and
\* leaves their bits in taken set
RECURSIVE evict_from_keep_taken(_, _, _, _)
evict_from_keep_taken(b, sl, i, st) ==
    IF i > Len(sl) THEN st
    ELSE LET b2 == st.slots[sl[i]]
             cleared == IF b2 = BucketIdxNONE THEN {}
                        ELSE {x \in DOMAIN st.slots :
                                 \E j \in DOMAIN bp.bucket[b2] :
                                    x = slot_in_part(bp.bucket[b2][j],
                                                     pilots[bp.part * ph.buckets + b2])}
             st2 == [slots     |-> [x \in DOMAIN st.slots |->
                                       IF x = sl[i] THEN b
                                       ELSE IF x \in cleared THEN BucketIdxNONE
                                       ELSE st.slots[x]],
                     taken     |-> [x \in DOMAIN st.taken |->
                                       IF x = sl[i] THEN TRUE ELSE st.taken[x]],
                     stack     |-> IF b2 = BucketIdxNONE THEN st.stack
                                   ELSE Append(st.stack, <<bucket_len(b2), b2>>),
                     evictions |-> IF b2 = BucketIdxNONE THEN st.evictions
                                   ELSE st.evictions + 1,
                     failed    |-> st.failed \/ b2 = b]
         IN  evict_from_keep_taken(b, sl, i + 1, st2)

\* one pass of "Drop the collisions and set the new pilot" over the slots of b
\* st = [slots, taken, stack, evictions, failed]
RECURSIVE evict_from(_, _, _, _)
evict_from(b, sl, i, st) ==
    IF i > Len(sl) THEN st
    ELSE LET b2 == st.slots[sl[i]]
             cleared == IF b2 = BucketIdxNONE THEN {}
                        ELSE {x \in DOMAIN st.slots :
                                 \E j \in DOMAIN bp.bucket[b2] :
                                    x = slot_in_part(bp.bucket[b2][j],
                                                     pilots[bp.part * ph.buckets + b2])}
             st2 == [slots     |-> [x \in DOMAIN st.slots |->
                                       IF x = sl[i] THEN b
                                       ELSE IF x \in cleared THEN BucketIdxNONE
                                       ELSE st.slots[x]],
                     taken     |-> [x \in DOMAIN st.taken |->
                                       IF x = sl[i] THEN TRUE
                                       ELSE IF x \in cleared THEN FALSE
                                       ELSE st.taken[x]],
                     stack     |-> IF b2 = BucketIdxNONE THEN st.stack
                                   ELSE Append(st.stack, <<bucket_len(b2), b2>>),
                     evictions |-> IF b2 = BucketIdxNONE THEN st.evictions
                                   ELSE st.evictions + 1,
                     failed    |-> st.failed \/ b2 = b]
         IN  evict_from(b, sl, i + 1, st2)

(***************************************************************************)
(* remap_free_slots                                                        *)
(***************************************************************************)
count_zeros == Cardinality({x \in (0 .. ph.parts - 1) \X (0 .. ph.slots - 1) :
                               ~taken[x[1]][x[2]]})

\* get = |t, idx| t[idx / self.slots][idx % self.slots]
get_in_bounds(idx) == idx \div ph.slots \in DOMAIN taken
                      /\ idx % ph.slots \in DOMAIN taken[idx \div ph.slots]
get(idx) == taken[idx \div ph.slots][idx % ph.slots]

\* the free slots below n, in increasing order (iter_zeros, take_while)
free_below_n ==
    SortedSeq({x \in 0 .. ph.n - 1 :
                  x < ph.slots_total /\ ~taken[x \div ph.slots][x % ph.slots]})

\* the taken slots at or above n, in increasing order
taken_from_n == SortedSeq({s \in ph.n .. ph.slots_total - 1 : get(s)})

\* v.push(i) without the loop that fills the entries of the free slots at or
\* above n
push_free_no_padding(v, i) == Append(v, i)

\* while !get(taken, n + v.len()) { v.push(i) }; v.push(i)
\* -1 stands for the index-out-of-bounds panic of get
RECURSIVE push_free(_, _)
push_free(v, i) ==
    IF v = <<0 - 1>> THEN v
    ELSE IF ~get_in_bounds(ph.n + Len(v)) THEN <<0 - 1>>
    ELSE IF ~get(ph.n + Len(v)) THEN push_free(Append(v, i), i)
    ELSE Append(v, i)

RECURSIVE remap_from(_, _, _)
remap_from(free, j, v) ==
    IF j > Len(free) THEN v
    ELSE remap_from(free, j + 1, push_free(v, free[j]))

\* the remap vector without the padding for free slots at or above n
remap_vector_unpadded == free_below_n

remap_vector == remap_from(free_below_n, 1, <<>>)

(***************************************************************************)
(* Queries.  Packed::index is get_unchecked: a read past the end of the    *)
(* table is undefined behaviour, modelled as the read yielding any value   *)
(* of the element type (0 .. MaxUB for a remap entry, any pilot for a      *)
(* pilot byte) or the process faulting.  A query operator is the set of    *)
(* results the call can have; Fault stands for the faulting call.          *)
(***************************************************************************)
Fault == 0 - 1

\* self.pilots.as_ref().index(b)
pilots_index(b) ==
    IF b \in DOMAIN ph.pilots THEN {ph.pilots[b]}
    ELSE (0 .. kmax - 1) \cup {Fault}

\* self.remap.index(i)
remap_index(i) ==
    IF i + 1 \in DOMAIN ph.remap THEN {ph.remap[i + 1]}
    ELSE (0 .. MaxUB) \cup {Fault}

max_index == ph.slots_total

\* if slot < self.n { slot } else { self.remap.index(slot - self.n) }
minimal(s) ==
    IF s = Fault THEN {Fault}
    ELSE IF s < ph.n THEN {s}
    ELSE remap_index(s - ph.n)

\* pilot lookup and slot of a hash whose bucket is b
slot_of(h, b) ==
    {IF p = Fault THEN Fault ELSE slot(h, p) : p \in pilots_index(b)}

index_no_remap(key) == slot_of(hash_key(key), bucket(hash_key(key)))

index(key) == UNION {minimal(s) : s \in index_no_remap(key)}

index_single_part_no_remap(key) ==
    LET h == hash_key(key)
        b == bucket_in_part(high(h))
    IN  {IF p = Fault THEN Fault ELSE slot_in_part(h, p) : p \in pilots_index(b)}

index_single_part(key) == UNION {minimal(s) : s \in index_single_part_no_remap(key)}

\* the sequences over S of length at most n
SeqsUpTo(S, n) == UNION {[1 .. k -> S] : k \in 0 .. n}

\* the query step of index_batch and index_stream for one cached (hash, bucket)
query_step(h, b, MINIMAL) ==
    IF MINIMAL THEN UNION {minimal(s) : s \in slot_of(h, b)} ELSE slot_of(h, b)

\* index_batch: the arrays it can return for the array xs
RECURSIVE index_batch_from(_, _, _, _)
index_batch_from(xs, MINIMAL, idx, acc) ==
    IF idx > Len(xs) THEN acc
    ELSE LET h == hash_key(xs[idx])
         IN  index_batch_from(xs, MINIMAL, idx + 1,
                 {Append(a, r) : a \in acc, r \in query_step(h, bucket(h), MINIMAL)})

index_batch(xs, MINIMAL) == index_batch_from(xs, MINIMAL, 1, {<<>>})

\* Hx::H::default()
default_hash == 0

\* index_stream up to the construction of It: the ring buffers after the
\* loop "Initialize and prefetch first B values"
index_stream(B, MINIMAL, ks) ==
    LET taken_keys == Min(B, Len(ks))
        nh == [idx \in 0 .. B - 1 |->
                  IF idx < Len(ks) THEN hash_key(ks[idx + 1]) ELSE default_hash]
    IN  [op           |-> "index_stream",
         B            |-> B,
         MINIMAL      |-> MINIMAL,
         input        |-> ks,
         keys         |-> SubSeq(ks, taken_keys + 1, Len(ks)),
         next_hashes  |-> nh,
         next_buckets |-> [idx \in 0 .. B - 1 |-> bucket(nh[idx])],
         leftover     |-> B - taken_keys,
         i            |-> 0,
         drained      |-> 0,
         out          |-> <<>>,
         phase        |-> "fold"]

(***************************************************************************)
(* persistence.rs.  A file is a sequence of cells, one per encoded integer *)
(* field; a cell of the data section holds ByteBits bits.  The checksum is *)
(* a CRC of CrcBits bits over the cells of the data section, computed as   *)
(* crc32fast computes CRC-32: register preset to all ones, cells xored in  *)
(* at the low end, one conditional xor with the reflected polynomial per   *)
(* bit, and a final complement.                                            *)
(***************************************************************************)
FORMAT_VERSION == 1
\* b"LEARNKV1", one cell: its first byte
MAGIC == 76
RebuildOnLoad == 1

ByteBits == 3
CrcBits == 3
\* x^3 + x + 1, reflected
CrcPoly == 6
\* std::mem::size_of::<FileHeader>()
SizeOfFileHeader == 40
\* the capacity of BufWriter::new
BufCapacity == 7

Bytes == 0 .. Pow2(ByteBits) - 1

RECURSIVE crc_shift(_, _)
crc_shift(crc, bits) ==
    IF bits = 0 THEN crc
    ELSE crc_shift(IF crc % 2 = 1 THEN Xor(crc \div 2, CrcPoly) ELSE crc \div 2,
                   bits - 1)

RECURSIVE crc_update(_, _, _)
crc_update(crc, bytes, i) ==
    IF i > Len(bytes) THEN crc
    ELSE crc_update(crc_shift(Xor(crc, bytes[i]), ByteBits), bytes, i + 1)

\* crc32fast::hash(data)
calculate_checksum(bytes) ==
    Xor(crc_update(Pow2(CrcBits) - 1, bytes, 1), Pow2(CrcBits) - 1)

\* Option<Vec<u8>>
None == [some |-> FALSE]
Some(v) == [some |-> TRUE, v |-> v]

\* bincode of a Vec: the length, then the elements
ser_vec(v) == <<Len(v)>> \o v

\* bincode::serialize(data) of a PersistedData
serialize_data(d) ==
    ser_vec(d.keys) \o ser_vec(d.values)
        \o (IF d.mphf_data.some THEN <<1>> \o ser_vec(d.mphf_data.v) ELSE <<0>>)

\* bincode of a Vec read at cell i: the vector and the cell after it
de_vec(b, i) ==
    IF i > Len(b) \/ i + b[i] > Len(b) THEN [ok |-> FALSE]
    ELSE [ok |-> TRUE, v |-> SubSeq(b, i + 1, i + b[i]), next |-> i + b[i] + 1]

\* bincode::deserialize(&data_bytes) of a PersistedData; cells after the value
\* are ignored
deserialize_data(b) ==
    LET ks == de_vec(b, 1)
        vs == de_vec(b, ks.next)
        m  == de_vec(b, vs.next + 1)
    IN  IF ~ks.ok THEN [ok |-> FALSE]
        ELSE IF ~vs.ok THEN [ok |-> FALSE]
        ELSE IF vs.next > Len(b) THEN [ok |-> FALSE]
        ELSE IF b[vs.next] = 0
        THEN [ok |-> TRUE,
              data |-> [keys |-> ks.v, values |-> vs.v, mphf_data |-> None]]
        ELSE IF b[vs.next] = 1 /\ m.ok
        THEN [ok |-> TRUE,
              data |-> [keys |-> ks.v, values |-> vs.v, mphf_data |-> Some(m.v)]]
        ELSE [ok |-> FALSE]

\* FileHeader::new
FileHeader_new(file_size, checksum, key_count, strategy) ==
    [magic |-> MAGIC, version |-> FORMAT_VERSION, file_size |-> file_size,
     checksum |-> checksum, key_count |-> key_count, strategy |-> strategy]

\* bincode::serialize(&header): the fields in declaration order
serialize_header(h) ==
    <<h.magic, h.version, h.file_size, h.checksum, h.key_count, h.strategy>>

HeaderLen == Len(serialize_header(FileHeader_new(0, 0, 0, 0)))

\* bincode::deserialize_from(&mut reader) of a FileHeader
deserialize_header(b) ==
    IF Len(b) < HeaderLen THEN [ok |-> FALSE]
    ELSE [ok |-> TRUE,
          header |-> [magic |-> b[1], version |-> b[2], file_size |-> b[3],
                      checksum |-> b[4], key_count |-> b[5], strategy |-> b[6]]]

\* FileHeader::validate
validate(h) ==
    IF h.magic # MAGIC THEN "Invalid file format"
    ELSE IF h.version # FORMAT_VERSION THEN "Incompatible format version"
    ELSE IF h.strategy \notin {0, 1} THEN "Unknown persistence strategy"
    ELSE "Ok"

\* the file write_with_integrity hands to the writer: header_bytes, data_bytes
header_bytes(d) ==
    serialize_header(FileHeader_new(SizeOfFileHeader + Len(serialize_data(d)),
                                    calculate_checksum(serialize_data(d)),
                                    Len(d.keys), RebuildOnLoad))

image(d) == header_bytes(d) \o serialize_data(d)

\* a file, or the absence of one
NoFile == [exists |-> FALSE, bytes |-> <<>>]
File(b) == [exists |-> TRUE, bytes |-> b]

\* read_with_validation without the checksum comparison
read_without_checksum(f) ==
    LET h == deserialize_header(f.bytes)
        data_bytes == SubSeq(f.bytes, HeaderLen + 1, Len(f.bytes))
        d == deserialize_data(data_bytes)
    IN  IF ~f.exists THEN [ok |-> FALSE, err |-> "Io"]
        ELSE IF ~h.ok THEN [ok |-> FALSE, err |-> "Serialization"]
        ELSE IF validate(h.header) # "Ok" THEN [ok |-> FALSE, err |-> validate(h.header)]
        ELSE IF ~d.ok THEN [ok |-> FALSE, err |-> "Serialization"]
        ELSE IF Len(d.data.keys) # h.header.key_count
        THEN [ok |-> FALSE, err |-> "Key count mismatch"]
        ELSE [ok |-> TRUE, data |-> d.data, strategy |-> "RebuildOnLoad"]

\* read_with_validation, on the file at the path
read_with_validation(f) ==
    LET h == deserialize_header(f.bytes)
        data_bytes == SubSeq(f.bytes, HeaderLen + 1, Len(f.bytes))
        d == deserialize_data(data_bytes)
    IN  IF ~f.exists THEN [ok |-> FALSE, err |-> "Io"]
        ELSE IF ~h.ok THEN [ok |-> FALSE, err |-> "Serialization"]
        ELSE IF validate(h.header) # "Ok" THEN [ok |-> FALSE, err |-> validate(h.header)]
        ELSE IF calculate_checksum(data_bytes) # h.header.checksum
        THEN [ok |-> FALSE, err |-> "Checksum mismatch"]
        ELSE IF ~d.ok THEN [ok |-> FALSE, err |-> "Serialization"]
        ELSE IF Len(d.data.keys) # h.header.key_count
        THEN [ok |-> FALSE, err |-> "Key count mismatch"]
        ELSE [ok |-> TRUE, data |-> d.data, strategy |-> "RebuildOnLoad"]

\* Path::with_extension
with_extension(p, ext) == [p EXCEPT !.ext = ext]

Paths == {[stem |-> "store", ext |-> e] : e \in {"bin", "tmp"}}

NoWriter == [open |-> FALSE]

\* no persistence call was made
NoPersistence ==
    /\ path = [stem |-> "store", ext |-> "bin"]
    /\ data = [keys |-> <<>>, values |-> <<>>, mphf_data |-> None]
    /\ prev = NoFile
    /\ fs = [p \in Paths |-> NoFile]
    /\ writer = NoWriter
    /\ fpc = "idle"
    /\ saved = "none"
    /\ edits = 0
    /\ rd = [ok |-> FALSE, err |-> "none"]

\* no VerifiedKvStore
NoStore == [built |-> FALSE]
NoOrig == [some |-> FALSE]

Workers == 1 .. MaxWorkers

\* a rayon worker that is in no job of for_each_init
IdleWorker == [pc |-> "idle", bufs |-> <<>>, j |-> 0, dropping |-> FALSE]

\* no shard iterator was made
\* no build_part call is waiting, and none was made before
NoParked == <<>>

NoTwin == [active |-> FALSE]

\* no save_to_file calls run side by side
NoSaves == [active |-> FALSE]

NoShards == [pc |-> "none", mem |-> 0, on_disk |-> 0, next |-> 0, out |-> <<>>,
             first |-> 0, last |-> 0, todo |-> {}, files |-> <<>>,
             workers |-> [w \in Workers |-> IdleWorker]]

Threads == 1 .. MaxThreads

\* a thread that is in no call
IdleThread == [pc |-> "idle", op |-> "none", key |-> 0, slot |-> 0, idx |-> 0,
               result |-> 0]

\* no VerifiedKvStore call was made
NoStoreCall ==
    /\ map = <<>>
    /\ store = NoStore
    /\ orig = NoOrig
    /\ th = [t \in Threads |-> IdleThread]
    /\ sh = NoShards
    /\ parked = NoParked
    /\ twin = NoTwin
    /\ chain = <<>>
    /\ saves = NoSaves

(***************************************************************************)
(* The constructors: new, try_new, new_from_par_iter, and the entry of     *)
(* VerifiedKvStore / LearnedKvStore::new_with_hasher ("store").            *)
(***************************************************************************)
NoQuery == [op |-> "none"]

Init ==
    /\ keys \in {K \in SUBSET Keys : Cardinality(K) <= MaxN}
    /\ hx \in Hashers
    /\ api \in Apis
    /\ params \in ParamSets
    /\ api = "store" => params = default_fast
    /\ ph = EmptyPtrHash
    /\ tries = 0
    /\ pilots = <<>>
    /\ taken = <<>>
    /\ shard = 0
    /\ bp = NoPart
    /\ pc = "start"
    /\ outcome = "none"
    /\ q = NoQuery
    /\ keys_len = Cardinality(keys)
    /\ NoPersistence
    /\ NoStoreCall

\* compute_pilots returns (or unwinds): its locals are dropped
drop_locals ==
    /\ tries' = 0
    /\ pilots' = <<>>
    /\ taken' = <<>>
    /\ shard' = 0
    /\ bp' = NoPart

\* new_with_hasher without the is_empty check: an empty map reaches PtrHash::new
RejectEmptyMissing ==
    /\ pc = "start"
    /\ api = "store"
    /\ keys = {}
    /\ pc' = "seed"
    /\ ph' = init(0, params)
    /\ UNCHANGED <<storeVars, keys, hx, api, params, tries, pilots, taken, shard, bp, outcome, q>>

\* new_with_hasher: if data.is_empty() { return Err(KvError::EmptyKeySet) }
RejectEmpty ==
    /\ pc = "start"
    /\ api = "store"
    /\ keys = {}
    /\ pc' = "done"
    /\ outcome' = "EmptyKeySet"
    /\ UNCHANGED <<storeVars, keys, hx, api, params, ph, tries, pilots, taken, shard, bp, q>>

\* Self::init(keys.len(), params), then compute_pilots up to the seed loop
Construct ==
    /\ pc = "start"
    /\ ~(api = "store" /\ keys = {})
    /\ IF init_panics(keys_len, params)
       THEN /\ pc' = "done"
            /\ outcome' = "panic"
            /\ UNCHANGED ph
       ELSE /\ pc' = "seed"
            /\ ph' = init(keys_len, params)
            /\ UNCHANGED outcome
    /\ tries' = 0
    /\ UNCHANGED <<storeVars, keys, hx, api, params, pilots, taken, shard, bp, q>>

\* the head of the loop 's with the bound off by one: tries >= MAX_TRIES + 2
NextSeedOffByOne ==
    /\ pc = "seed"
    /\ tries <= MAX_TRIES
    /\ tries' = tries + 1
    /\ \E s \in Seeds : ph' = [ph EXCEPT !.seed = s]
    /\ pilots' = [b \in 0 .. ph.buckets_total - 1 |-> 0]
    /\ taken' = [pt \in 0 .. ph.parts - 1 |-> [s \in 0 .. ph.slots - 1 |-> FALSE]]
    /\ shard' = 0
    /\ bp' = NoPart
    /\ pc' = "shard"
    /\ UNCHANGED <<storeVars, keys, hx, api, params, outcome, q>>

\* the head of the loop 's for tries <= MAX_TRIES: a new seed, cleared tables
NextSeed ==
    /\ pc = "seed"
    /\ tries + 1 <= MAX_TRIES
    /\ tries' = tries + 1
    /\ \E s \in Seeds : ph' = [ph EXCEPT !.seed = s]
    /\ pilots' = [b \in 0 .. ph.buckets_total - 1 |-> 0]
    /\ taken' = [pt \in 0 .. ph.parts - 1 |-> [s \in 0 .. ph.slots - 1 |-> FALSE]]
    /\ shard' = 0
    /\ bp' = NoPart
    /\ pc' = "shard"
    /\ UNCHANGED <<storeVars, keys, hx, api, params, outcome, q>>

\* tries > MAX_TRIES: compute_pilots returns None; new and new_with_stats
\* panic on it (expect), try_new returns None, new_from_par_iter drops the
\* Option and returns the struct as init and the last seed left it
GiveUp ==
    /\ pc = "seed"
    /\ tries + 1 > MAX_TRIES
    /\ pc' = "done"
    /\ outcome' = CASE api = "try_new" -> "None"
                    [] api = "new_from_par_iter" -> "index"
                    [] OTHER -> "panic"
    /\ drop_locals
    /\ UNCHANGED <<storeVars, keys, hx, api, params, ph, q>>

\* the zip of shard_hashes, shard_pilots and shard_taken is exhausted
ShardsDone ==
    /\ pc = "shard"
    /\ shard >= ph.shards
    /\ pc' = "remap"
    /\ UNCHANGED <<storeVars, keys, hx, api, params, ph, tries, pilots, taken, shard, bp, outcome, q>>

\* sort_parts returns None: continue 's
DuplicateHashes ==
    /\ pc = "shard"
    /\ shard < ph.shards
    /\ has_duplicate_hashes
    /\ pc' = "seed"
    /\ UNCHANGED <<storeVars, keys, hx, api, params, ph, tries, pilots, taken, shard, bp, outcome, q>>

\* build_shard starts on the first part of the shard
BuildShard ==
    /\ pc = "shard"
    /\ shard < ph.shards
    /\ ~has_duplicate_hashes
    /\ bp' = begin_part(shard * ph.parts_per_shard, 0)
    /\ pc' = "part"
    /\ UNCHANGED <<storeVars, keys, hx, api, params, ph, tries, pilots, taken, shard, outcome, q>>

\* for (i, &new_b) in bucket_order: an empty bucket
SkipEmptyBucket ==
    /\ pc = "part"
    /\ bp.stack = <<>>
    /\ bp.i <= Len(bp.order)
    /\ bucket_len(bp.order[bp.i]) = 0
    /\ pilots' = [pilots EXCEPT ![bp.part * ph.buckets + bp.order[bp.i]] = 0]
    /\ bp' = [bp EXCEPT !.i = bp.i + 1]
    /\ UNCHANGED <<storeVars, keys, hx, api, params, ph, tries, taken, shard, pc, outcome, q>>

\* for (i, &new_b) in bucket_order: a bucket with keys starts its chain
StartBucket ==
    /\ pc = "part"
    /\ bp.stack = <<>>
    /\ bp.i <= Len(bp.order)
    /\ bucket_len(bp.order[bp.i]) > 0
    /\ LET new_b == bp.order[bp.i]
       IN  bp' = [bp EXCEPT !.i = bp.i + 1,
                            !.new_b_len = bucket_len(new_b),
                            !.evictions = 0,
                            !.stack = <<<<bucket_len(new_b), new_b>>>>,
                            !.recent = [r \in 0 .. RecentLen - 1 |->
                                           IF r = 0 THEN new_b ELSE BucketIdxNONE],
                            !.recent_idx = 0]
    /\ UNCHANGED <<storeVars, keys, hx, api, params, ph, tries, pilots, taken, shard, pc, outcome, q>>

\* the budget test made at every pop, whatever the count
too_many_evictions_every_count == bp.evictions >= EvictionFactor * ph.slots

\* if evictions > self.slots && evictions.is_power_of_two() {
\*     if evictions >= 10 * self.slots { return None }
too_many_evictions ==
    /\ bp.evictions > ph.slots
    /\ IsPowerOfTwo(bp.evictions)
    /\ bp.evictions >= EvictionFactor * ph.slots

\* one iteration of 'b: while let Some((_b_len, b)) = stack.pop(), as far as
\* the variables of build_part go
stack_pop ==
    /\ pc = "part"
    /\ bp.stack # <<>>
    /\ LET t    == heap_top(bp.stack)
           b    == bp.stack[t][2]
           rest == heap_remove(bp.stack, t)
           fp   == find_pilot(b, taken[bp.part])
           sl   == slots_for_bucket(b, fp.p)
       IN  IF too_many_evictions
           THEN \* too many evictions: return None, continue 's
                /\ pc' = "seed"
                /\ bp' = NoPart
                /\ UNCHANGED <<pilots, taken, outcome>>
           ELSE IF fp.p # NoPilot
           THEN \* 1b) the hot path: a pilot without collisions
                /\ pilots' = [pilots EXCEPT ![bp.part * ph.buckets + b] = fp.p]
                /\ taken' = [taken EXCEPT ![bp.part] = fp.taken]
                /\ bp' = [bp EXCEPT !.stack = rest,
                                     !.slots = [x \in DOMAIN bp.slots |->
                                                   IF \E i \in DOMAIN sl : sl[i] = x
                                                   THEN b ELSE bp.slots[x]]]
                /\ UNCHANGED <<pc, outcome>>
           ELSE \* 2) the pilot with minimal collisions, from a random p0
                \E p0 \in P0s :
                  LET best == best_pilot(b, p0)
                      p    == best[2]
                      st   == evict_from(b, slots_for_bucket(b, p), 1,
                                         [slots     |-> bp.slots,
                                          taken     |-> taken[bp.part],
                                          stack     |-> rest,
                                          evictions |-> bp.evictions,
                                          failed    |-> FALSE])
                  IN  IF best = <<NoPilot, NoPilot>>
                      THEN \* indistinguishable hashes in bucket: return None
                           /\ pc' = "seed"
                           /\ bp' = NoPart
                           /\ UNCHANGED <<pilots, taken, outcome>>
                      ELSE IF st.failed
                      THEN \* assert!(b2 != b) fails
                           /\ pc' = "done"
                           /\ outcome' = "panic"
                           /\ bp' = NoPart
                           /\ UNCHANGED <<pilots, taken>>
                      ELSE /\ pilots' = [pilots EXCEPT ![bp.part * ph.buckets + b] = p]
                           /\ taken' = [taken EXCEPT ![bp.part] = st.taken]
                           /\ bp' = [bp EXCEPT
                                       !.stack = st.stack,
                                       !.slots = st.slots,
                                       !.evictions = st.evictions,
                                       !.recent_idx = (bp.recent_idx + 1) % RecentLen,
                                       !.recent = [bp.recent EXCEPT
                                          ![(bp.recent_idx + 1) % RecentLen] = b]]
                           /\ UNCHANGED <<pc, outcome>>
    /\ UNCHANGED <<keys, hx, api, params, ph, tries, shard, q>>

\* one iteration of 'b: while let Some((_b_len, b)) = stack.pop()
PopBucket == stack_pop /\ UNCHANGED storeVars

\* build_part returns Some: the next part of the shard, or the next shard
PartDone ==
    /\ pc = "part"
    /\ bp.stack = <<>>
    /\ bp.i > Len(bp.order)
    /\ IF bp.part_in_shard + 1 < ph.parts_per_shard
       THEN /\ bp' = begin_part(bp.part + 1, bp.part_in_shard + 1)
            /\ UNCHANGED <<pc, shard>>
       ELSE /\ bp' = NoPart
            /\ shard' = shard + 1
            /\ pc' = "shard"
    /\ UNCHANGED <<storeVars, keys, hx, api, params, ph, tries, pilots, taken, outcome, q>>

\* remap_free_slots, then "Pack the data" and return Some(stats)
Remap ==
    /\ pc = "remap"
    /\ pc' = "done"
    /\ IF count_zeros # ph.slots_total - ph.n
       THEN \* assert_eq!: not the right number of free slots left
            /\ outcome' = "panic"
            /\ UNCHANGED ph
       ELSE IF ~params.remap \/ ph.slots_total = ph.n
       THEN /\ outcome' = "index"
            /\ ph' = [ph EXCEPT !.pilots = pilots]
       ELSE IF remap_vector = <<0 - 1>>
       THEN /\ outcome' = "panic"
            /\ UNCHANGED ph
       ELSE /\ outcome' = "index"
            /\ ph' = [ph EXCEPT !.pilots = pilots, !.remap = remap_vector]
    /\ drop_locals
    /\ UNCHANGED <<storeVars, keys, hx, api, params, q>>

\* a query is made on what the constructor returned
Returned == pc = "done" /\ outcome = "index"

Index ==
    /\ Returned
    /\ q = NoQuery
    /\ \E key \in Keys : \E r \in index(key) :
          q' = [op |-> "index", key |-> key, result |-> r]
    /\ UNCHANGED <<storeVars, keys, hx, api, params, ph, tries, pilots, taken, shard, bp, pc, outcome>>

IndexNoRemap ==
    /\ Returned
    /\ q = NoQuery
    /\ \E key \in Keys : \E r \in index_no_remap(key) :
          q' = [op |-> "index_no_remap", key |-> key, result |-> r]
    /\ UNCHANGED <<storeVars, keys, hx, api, params, ph, tries, pilots, taken, shard, bp, pc, outcome>>

\* #[cfg(debug_assertions)] assert_eq!(self.parts, 1) is left out: parts = 1
\* is the guard
IndexSinglePart ==
    /\ Returned
    /\ ph.parts = 1
    /\ q = NoQuery
    /\ \E key \in Keys : \E r \in index_single_part(key) :
          q' = [op |-> "index_single_part", key |-> key, result |-> r]
    /\ UNCHANGED <<storeVars, keys, hx, api, params, ph, tries, pilots, taken, shard, bp, pc, outcome>>

IndexSinglePartNoRemap ==
    /\ Returned
    /\ ph.parts = 1
    /\ q = NoQuery
    /\ \E key \in Keys : \E r \in index_single_part_no_remap(key) :
          q' = [op |-> "index_single_part_no_remap", key |-> key, result |-> r]
    /\ UNCHANGED <<storeVars, keys, hx, api, params, ph, tries, pilots, taken, shard, bp, pc, outcome>>

\* index_batch::<K, MINIMAL>(xs), K = Len(xs); a fault in any position faults
\* the call
IndexBatch ==
    /\ Returned
    /\ q = NoQuery
    /\ \E MINIMAL \in BOOLEAN : \E xs \in SeqsUpTo(Keys, MaxBatch) :
       \E r \in index_batch(xs, MINIMAL) :
          q' = [op |-> "index_batch", MINIMAL |-> MINIMAL, xs |-> xs,
                result |-> IF \E i \in DOMAIN r : r[i] = Fault THEN <<Fault>> ELSE r,
                fault |-> \E i \in DOMAIN r : r[i] = Fault]
    /\ UNCHANGED <<storeVars, keys, hx, api, params, ph, tries, pilots, taken, shard, bp, pc, outcome>>

\* the key sequences handed to index_stream: every short sequence, and the
\* build keys themselves
StreamInputs == SeqsUpTo(Keys, MaxStream) \cup {SortedSeq(keys)}

\* index_stream::<B, MINIMAL, _>(keys) returns the iterator It
IndexStream ==
    /\ Returned
    /\ q = NoQuery
    /\ \E B \in 0 .. MaxB : \E MINIMAL \in BOOLEAN : \E ks \in StreamInputs :
          q' = index_stream(B, MINIMAL, ks)
    /\ UNCHANGED <<storeVars, keys, hx, api, params, ph, tries, pilots, taken, shard, bp, pc, outcome>>

\* It::fold, one iteration of "for key in self.keys"
StreamKey ==
    /\ q.op = "index_stream"
    /\ q.phase = "fold"
    /\ q.keys # <<>>
    /\ IF q.B = 0
       THEN \* i % B: attempt to calculate the remainder with a divisor of zero
            q' = [q EXCEPT !.phase = "panic"]
       ELSE LET idx        == q.i % q.B
                next_hash  == hash_key(Head(q.keys))
                cur_hash   == q.next_hashes[idx]
                cur_bucket == q.next_buckets[idx]
            IN  \E r \in query_step(cur_hash, cur_bucket, q.MINIMAL) :
                   q' = IF r = Fault
                        THEN [q EXCEPT !.phase = "fault"]
                        ELSE [q EXCEPT !.keys = Tail(q.keys),
                                       !.next_hashes[idx] = next_hash,
                                       !.next_buckets[idx] = bucket(next_hash),
                                       !.out = Append(q.out, r),
                                       !.i = q.i + 1]
    /\ UNCHANGED <<storeVars, keys, hx, api, params, ph, tries, pilots, taken, shard, bp, pc, outcome>>

\* It::fold, one iteration of "for _ in 0..B - self.leftover"
StreamDrain ==
    /\ q.op = "index_stream"
    /\ q.phase = "fold"
    /\ q.keys = <<>>
    /\ q.drained < q.B - q.leftover
    /\ LET idx        == q.i % q.B
           cur_hash   == q.next_hashes[idx]
           cur_bucket == q.next_buckets[idx]
       IN  \E r \in query_step(cur_hash, cur_bucket, q.MINIMAL) :
              q' = IF r = Fault
                   THEN [q EXCEPT !.phase = "fault"]
                   ELSE [q EXCEPT !.out = Append(q.out, r),
                                  !.i = q.i + 1,
                                  !.drained = q.drained + 1]
    /\ UNCHANGED <<storeVars, keys, hx, api, params, ph, tries, pilots, taken, shard, bp, pc, outcome>>

\* It::fold returns accum
StreamEnd ==
    /\ q.op = "index_stream"
    /\ q.phase = "fold"
    /\ q.keys = <<>>
    /\ q.drained >= q.B - q.leftover
    /\ q' = [q EXCEPT !.phase = "done"]
    /\ UNCHANGED <<storeVars, keys, hx, api, params, ph, tries, pilots, taken, shard, bp, pc, outcome>>

\* the caller takes the result of the call
Return ==
    /\ q # NoQuery
    /\ q.op = "index_stream" => q.phase # "fold"
    /\ q' = NoQuery
    /\ UNCHANGED <<storeVars, keys, hx, api, params, ph, tries, pilots, taken, shard, bp, pc, outcome>>

\* the constructors of PtrHash
Construction ==
    \/ Construct \/ NextSeed \/ GiveUp
    \/ ShardsDone \/ DuplicateHashes \/ BuildShard
    \/ SkipEmptyBucket \/ StartBucket
    \/ PopBucket
    \/ PartDone \/ Remap

Build == RejectEmpty \/ Construction

Query == Index \/ IndexNoRemap \/ IndexSinglePart \/ IndexSinglePartNoRemap

Next == Build \/ Query \/ Return

Spec == Init /\ [][Next]_vars

\* index_batch and index_stream on the indexes try_new builds with the
\* default parameters, with and without remap
InitBulk ==
    /\ Init
    /\ api = "try_new"
    /\ params \in {[default_fast EXCEPT !.remap = r] : r \in BOOLEAN}

Bulk == IndexBatch \/ IndexStream \/ StreamKey \/ StreamDrain \/ StreamEnd

NextBulk == Construction \/ Bulk \/ Return

SpecBulk == InitBulk /\ [][NextBulk]_vars

(***************************************************************************)
(* PtrHash::init alone, on key counts up to 10^9.  init reads only n and   *)
(* params; the key slice itself is not represented.                        *)
(***************************************************************************)
InitSizes == {1, 100, 9999, 10000, 80000, 100000, 1000000, 10000000, 100000000,
              200000000, 300000000, 1000000000}

InitInit ==
    /\ keys_len \in InitSizes
    /\ params \in ParamSets
    /\ keys = {}
    /\ hx = "FastIntHash"
    /\ api = "init"
    /\ ph = EmptyPtrHash
    /\ tries = 0
    /\ pilots = <<>>
    /\ taken = <<>>
    /\ shard = 0
    /\ bp = NoPart
    /\ pc = "start"
    /\ outcome = "none"
    /\ q = NoQuery
    /\ NoPersistence
    /\ NoStoreCall

\* Self::init(n, params): the struct with its layout, or one of the two panics
CallInit ==
    /\ pc = "start"
    /\ api = "init"
    /\ pc' = "done"
    /\ IF init_panics(keys_len, params)
       THEN /\ outcome' = "panic"
            /\ UNCHANGED ph
       ELSE /\ outcome' = "init"
            /\ ph' = init(keys_len, params)
    /\ UNCHANGED <<storeVars, keys, hx, api, params, tries, pilots, taken, shard, bp, q>>

SpecInit == InitInit /\ [][CallInit]_vars

(***************************************************************************)
(* PtrHash::init on the layouts of small and large key counts, with the    *)
(* presets' lambdas and with sharding.                                     *)
(***************************************************************************)
LayoutSizes == (1 .. 12) \cup {99, 100, 9999, 10000, 80000, 1000000, 10000000}

\* lambda of default_fast, default_balanced and default_compact
Lambdas == {<<3, 1>>, <<7, 2>>, <<39, 10>>}

LayoutParams ==
    {[default_fast EXCEPT !.alpha = a, !.lambda = l, !.single_part = sp,
                          !.sharding = s, !.keys_per_shard = k] :
        a \in Alphas, l \in Lambdas, sp \in BOOLEAN, s \in {"None", "Memory"},
        k \in {1000, default_fast.keys_per_shard}}

InitLayout ==
    /\ keys_len \in LayoutSizes
    /\ params \in LayoutParams
    /\ keys = {}
    /\ hx = "FastIntHash"
    /\ api = "init"
    /\ ph = EmptyPtrHash
    /\ tries = 0
    /\ pilots = <<>>
    /\ taken = <<>>
    /\ shard = 0
    /\ bp = NoPart
    /\ pc = "start"
    /\ outcome = "none"
    /\ q = NoQuery
    /\ NoPersistence
    /\ NoStoreCall

SpecLayout == InitLayout /\ [][CallInit]_vars

(***************************************************************************)
(* build_shard called twice on the same shard, hashes and seed: the tables *)
(* are as compute_pilots hands them over at the head of an attempt, and    *)
(* the second call starts from tables cleared in the same way.             *)
(***************************************************************************)
InitTwin ==
    /\ keys \in SUBSET Keys \ {{}}
    /\ keys_len = Cardinality(keys)
    /\ hx \in Hashers
    /\ params \in ParamSets
    /\ api = "build_part"
    /\ \E s \in Seeds : ph = [init(keys_len, params) EXCEPT !.seed = s]
    /\ tries = 1
    /\ pilots = [b \in 0 .. ph.buckets_total - 1 |-> 0]
    /\ taken = [pt \in 0 .. ph.parts - 1 |-> [s \in 0 .. ph.slots - 1 |-> FALSE]]
    /\ shard = 0
    /\ bp = NoPart
    /\ pc = "shard"
    /\ outcome = "none"
    /\ q = NoQuery
    /\ NoPersistence
    /\ NoStoreCall

\* the tables of the first call are kept aside and the call is made again
BuildPartAgain ==
    /\ api = "build_part"
    /\ pc = "remap"
    /\ ~twin.active
    /\ twin' = [active |-> TRUE, pilots |-> pilots, taken |-> taken]
    /\ pilots' = [b \in 0 .. ph.buckets_total - 1 |-> 0]
    /\ taken' = [pt \in 0 .. ph.parts - 1 |-> [s \in 0 .. ph.slots - 1 |-> FALSE]]
    /\ shard' = 0
    /\ pc' = "shard"
    /\ UNCHANGED <<keys_len, fileVars, map, store, orig, th, sh, parked, chain, saves, keys, hx,
                   api, params, ph, tries, bp, outcome, q>>

NextTwin ==
    \/ DuplicateHashes
    \/ BuildShard
    \/ SkipEmptyBucket
    \/ StartBucket
    \/ PopBucket
    \/ PartDone
    \/ ShardsDone
    \/ BuildPartAgain

SpecTwin == InitTwin /\ [][NextTwin]_vars

(***************************************************************************)
(* build_shard on key sets large enough for buckets of two keys to evict   *)
(* each other: MaxN + 3 or MaxN + 4 keys out of MaxKey + 4.                *)
(***************************************************************************)
EvictKeys == 0 .. MaxKey + 3

InitEvict ==
    /\ keys \in {K \in SUBSET EvictKeys : Cardinality(K) \in {MaxN + 3, MaxN + 4}}
    /\ keys_len = Cardinality(keys)
    /\ hx \in Hashers
    /\ params \in ParamSets
    /\ api = "build_part"
    /\ \E s \in Seeds : ph = [init(keys_len, params) EXCEPT !.seed = s]
    /\ tries = 1
    /\ pilots = [b \in 0 .. ph.buckets_total - 1 |-> 0]
    /\ taken = [pt \in 0 .. ph.parts - 1 |-> [s \in 0 .. ph.slots - 1 |-> FALSE]]
    /\ shard = 0
    /\ bp = NoPart
    /\ pc = "shard"
    /\ outcome = "none"
    /\ q = NoQuery
    /\ NoPersistence
    /\ NoStoreCall

NextEvict ==
    \/ DuplicateHashes
    \/ BuildShard
    \/ SkipEmptyBucket
    \/ StartBucket
    \/ PopBucket
    \/ PartDone
    \/ ShardsDone

SpecEvict == InitEvict /\ [][NextEvict]_vars

(***************************************************************************)
(* build_shard on a shard of several parts: try_for_each over the parallel *)
(* iterator of the pilot chunks and taken bitmaps runs one build_part per  *)
(* part, on the threads of the pool and in any order.  bp holds the locals *)
(* of the call that takes the next step and parked those of the others; a  *)
(* step of another call is a switch followed by that step.  init gives     *)
(* several parts from 10000 keys on; here the layout is the one init       *)
(* computes from parts, on MaxParts parts of a few keys each.              *)
(***************************************************************************)
\* init from "let keys_per_part = n / parts" on, with parts given
init_with_parts(n, p, parts) ==
    [init(n, p) EXCEPT
        !.parts           = parts,
        !.parts_per_shard = parts,
        !.slots           = init_slots_per_part(n \div parts, p),
        !.buckets         = init_buckets_per_part(n \div parts, p),
        !.slots_total     = parts * init_slots_per_part(n \div parts, p),
        !.buckets_total   = parts * init_buckets_per_part(n \div parts, p)]

\* a part whose build_part call has not started, runs now, or has returned
TodoPart == [status |-> "todo", locals |-> NoPart]
RunningPart == [status |-> "running", locals |-> NoPart]
DonePart == [status |-> "done", locals |-> NoPart]

InitParts ==
    /\ keys \in {K \in SUBSET Keys : Cardinality(K) >= MaxParts}
    /\ keys_len = Cardinality(keys)
    /\ hx \in Hashers
    /\ params \in {p \in ParamSets : ~p.single_part /\ p.remap}
    /\ api = "build_shard"
    /\ \E s \in Seeds :
          ph = [init_with_parts(keys_len, params, MaxParts) EXCEPT !.seed = s]
    /\ tries = 1
    /\ pilots = [b \in 0 .. ph.buckets_total - 1 |-> 0]
    /\ taken = [pt \in 0 .. ph.parts - 1 |-> [s \in 0 .. ph.slots - 1 |-> FALSE]]
    /\ shard = 0
    /\ bp = NoPart
    /\ pc = "shard"
    /\ outcome = "none"
    /\ q = NoQuery
    /\ NoPersistence
    /\ map = <<>>
    /\ store = NoStore
    /\ orig = NoOrig
    /\ th = [t \in Threads |-> IdleThread]
    /\ sh = NoShards
    /\ parked = [p \in 0 .. ph.parts_per_shard - 1 |-> TodoPart]
    /\ twin = NoTwin
    /\ chain = <<>>
    /\ saves = NoSaves

\* every closure builds the first part of the shard
part_of_chunk_first(part_in_shard) == shard * ph.parts_per_shard

\* let part = shard * self.parts_per_shard + part_in_shard
part_of_chunk(part_in_shard) == shard * ph.parts_per_shard + part_in_shard

\* the locals of the call for chunk p when it takes its next step
resume(p) ==
    IF parked[p].status = "todo" THEN begin_part(part_of_chunk(p), p)
    ELSE parked[p].locals

\* the pool starts the closure of one of the chunks
ParStart ==
    /\ api = "build_shard"
    /\ pc = "shard"
    /\ shard < ph.shards
    /\ ~has_duplicate_hashes
    /\ \E p \in DOMAIN parked :
          /\ bp' = resume(p)
          /\ parked' = [parked EXCEPT ![p] = RunningPart]
    /\ pc' = "part"
    /\ UNCHANGED <<keys_len, fileVars, map, store, orig, th, sh, twin, chain, saves, keys, hx, api,
                   params, ph, tries, pilots, taken, shard, outcome, q>>

\* the next step is taken by the call of another chunk
ParSwitch ==
    /\ api = "build_shard"
    /\ pc = "part"
    /\ \E p \in DOMAIN parked :
          /\ parked[p].status \in {"todo", "parked"}
          /\ bp' = resume(p)
          /\ parked' = [parked EXCEPT
                           ![bp.part_in_shard] = [status |-> "parked", locals |-> bp],
                           ![p] = RunningPart]
    /\ UNCHANGED <<keys_len, fileVars, map, store, orig, th, sh, twin, chain, saves, keys, hx, api,
                   params, ph, tries, pilots, taken, shard, pc, outcome, q>>

\* build_part returns Some: parts_done.fetch_add(1); the calls of the other
\* chunks go on, and after the last one build_shard returns Some
ParDone ==
    /\ api = "build_shard"
    /\ pc = "part"
    /\ bp.stack = <<>>
    /\ bp.i > Len(bp.order)
    /\ IF \E p \in DOMAIN parked : parked[p].status \in {"todo", "parked"}
       THEN /\ \E p \in DOMAIN parked :
                  /\ parked[p].status \in {"todo", "parked"}
                  /\ bp' = resume(p)
                  /\ parked' = [parked EXCEPT ![bp.part_in_shard] = DonePart,
                                              ![p] = RunningPart]
            /\ UNCHANGED <<pc, shard>>
       ELSE /\ bp' = NoPart
            /\ parked' = [parked EXCEPT ![bp.part_in_shard] = DonePart]
            /\ shard' = shard + 1
            /\ pc' = "shard"
    /\ UNCHANGED <<keys_len, fileVars, map, store, orig, th, sh, twin, chain, saves, keys, hx, api,
                   params, ph, tries, pilots, taken, outcome, q>>

NextParts ==
    \/ DuplicateHashes
    \/ ParStart
    \/ ParSwitch
    \/ SkipEmptyBucket
    \/ StartBucket
    \/ PopBucket
    \/ ParDone
    \/ ShardsDone

SpecParts == InitParts /\ [][NextParts]_vars

(***************************************************************************)
(* The eviction chain of one bucket in build_part, seen through its        *)
(* counter.  A pop of the stack places the bucket and evicts 0 .. MaxKick  *)
(* buckets (0: the hot path found a free pilot), each of which is pushed   *)
(* and counted in evictions; the budget is tested at the head of every     *)
(* pop.  Which buckets are evicted does not enter the test, so the stack   *)
(* holds the pair of a one-key bucket 0 for every entry.                   *)
(***************************************************************************)
ChainEntry == <<1, 0>>

InitChain ==
    /\ keys_len \in 1 .. MaxN + 2
    /\ params \in ParamSets
    /\ ~init_panics(keys_len, params)
    /\ ph = init(keys_len, params)
    /\ keys = {}
    /\ hx = "FastIntHash"
    /\ api = "build_part"
    /\ tries = 1
    /\ pilots = <<>>
    /\ taken = <<>>
    /\ shard = 0
    /\ bp = [active |-> TRUE, stack |-> <<ChainEntry>>, evictions |-> 0]
    /\ pc = "part"
    /\ outcome = "none"
    /\ q = NoQuery
    /\ NoPersistence
    /\ NoStoreCall

\* one iteration of 'b: while let Some((_b_len, b)) = stack.pop(): the budget
\* test, then the bucket is placed and every bucket it evicts is pushed
ChainPop ==
    /\ pc = "part"
    /\ api = "build_part"
    /\ bp.stack # <<>>
    /\ IF too_many_evictions
       THEN \* too many evictions: return None
            /\ pc' = "seed"
            /\ bp' = NoPart
       ELSE \E kicked \in 0 .. MaxKick :
              /\ Len(bp.stack) - 1 + kicked <= MaxStack
              /\ bp.evictions + kicked <= MaxChain
              /\ bp' = [bp EXCEPT
                          !.stack = [j \in 1 .. Len(bp.stack) - 1 + kicked |-> ChainEntry],
                          !.evictions = bp.evictions + kicked]
              /\ UNCHANGED pc
    /\ UNCHANGED <<storeVars, keys, hx, api, params, ph, tries, pilots, taken, shard,
                   outcome, q>>

\* the stack is empty: total_evictions += evictions, and the next bucket of
\* bucket_order starts its chain with evictions = 0
ChainNext ==
    /\ pc = "part"
    /\ api = "build_part"
    /\ bp.stack = <<>>
    /\ bp' = [bp EXCEPT !.stack = <<ChainEntry>>, !.evictions = 0]
    /\ UNCHANGED <<storeVars, keys, hx, api, params, ph, tries, pilots, taken, shard, pc,
                   outcome, q>>

NextChain == ChainPop \/ ChainNext

SpecChain == InitChain /\ [][NextChain]_vars

(***************************************************************************)
(* The shard iterator of shard.rs, called by compute_pilots once per seed  *)
(* attempt.  It reads n, shards and seed of the struct that init made.     *)
(* None and Memory yield one vector per step.  Disk and Hybrid write the   *)
(* hashes of shards_on_disk shards at a time to one temp file per shard:   *)
(* the rayon workers of for_each_init take the keys in any order and in    *)
(* jobs of any length, push the hashes into the buffers of their job and   *)
(* flush a buffer into its file, under the file's mutex, when it is full   *)
(* and when the job ends.  The files are read back one per step.           *)
(***************************************************************************)
\* std::mem::size_of::<Hx::H>() for a u64 hash
HashBytes == 8

\* Vec::with_capacity(1 << 28) of a ThreadLocalBuf, scaled
LocalBufCapacity == 2

\* usize::MAX, the memory of Sharding::Disk: the largest integer TLC has
UsizeMax == 2147483647

\* the values of Sharding::Hybrid(mem)
MemSizes == {HashBytes, 2 * HashBytes}

ShardParamSets ==
    {[default_fast EXCEPT !.sharding = m, !.keys_per_shard = k] :
        m \in {"None", "Memory", "Disk", "Hybrid"}, k \in 1 .. MaxShardKeys}

\* keys.map(|key| self.hash_key(key.borrow())), in the order of the slice
all_hashes == LET ks == SortedSeq(keys) IN [i \in 1 .. Len(ks) |-> hash_key(ks[i])]

\* the vector of a shard without the filter
shard_keys_unfiltered(i) == all_hashes

\* shard_keys_in_memory: .filter(move |h| self.shard(*h) == shard).collect()
shard_keys_in_memory(i) == SelectSeq(all_hashes, LAMBDA h : shard_of(h) = i)

\* shard_keys_hybrid: mem / size_of::<Hx::H>() / keys_per_shard
shards_on_disk(mem) == (mem \div HashBytes) \div (ph.n \div ph.shards)

InitShards ==
    /\ keys \in {K \in SUBSET Keys : Cardinality(K) \in 1 .. MaxN}
    /\ keys_len = Cardinality(keys)
    /\ hx \in {"FastIntHash", "Stub"}
    /\ params \in ShardParamSets
    /\ api = "shards"
    /\ \E s \in Seeds : ph = [init(keys_len, params) EXCEPT !.seed = s]
    /\ tries = 1
    /\ pilots = <<>>
    /\ taken = <<>>
    /\ shard = 0
    /\ bp = NoPart
    /\ pc = "shard"
    /\ outcome = "none"
    /\ q = NoQuery
    /\ NoPersistence
    /\ map = <<>>
    /\ store = NoStore
    /\ orig = NoOrig
    /\ th = [t \in Threads |-> IdleThread]
    /\ parked = NoParked
    /\ twin = NoTwin
    /\ chain = <<>>
    /\ saves = NoSaves
    /\ \E m \in CASE params.sharding = "Hybrid" -> MemSizes
                  [] params.sharding = "Disk" -> {UsizeMax}
                  [] OTHER -> {0} :
          sh = [NoShards EXCEPT !.mem = m]

\* self.shards(keys.clone()): the iterator is made; shard_keys_hybrid asserts
\* shards_on_disk > 0
Shards ==
    /\ api = "shards"
    /\ sh.pc = "none"
    /\ IF params.sharding \in {"None", "Memory"}
       THEN sh' = [sh EXCEPT !.pc = "iter"]
       ELSE IF shards_on_disk(sh.mem) > 0
            THEN sh' = [sh EXCEPT !.pc = "iter", !.on_disk = shards_on_disk(sh.mem)]
            ELSE sh' = [sh EXCEPT !.pc = "panic"]
    /\ UNCHANGED <<fileVars, map, store, orig, th, parked, twin, chain, saves, phVars>>

\* no_sharding: std::iter::once(hashes)
NextNone ==
    /\ sh.pc = "iter"
    /\ params.sharding = "None"
    /\ sh' = [sh EXCEPT !.out = <<all_hashes>>, !.next = 1, !.pc = "done"]
    /\ UNCHANGED <<fileVars, map, store, orig, th, parked, twin, chain, saves, phVars>>

\* shard_keys_in_memory: (0..self.shards).map(..), one shard
NextMemory ==
    /\ sh.pc = "iter"
    /\ params.sharding = "Memory"
    /\ sh' = [sh EXCEPT !.out = Append(sh.out, shard_keys_in_memory(sh.next)),
                        !.next = sh.next + 1,
                        !.pc = IF sh.next + 1 >= ph.shards THEN "done" ELSE "iter"]
    /\ UNCHANGED <<fileVars, map, store, orig, th, parked, twin, chain, saves, phVars>>

\* shard_keys_hybrid, the closure of flat_map up to for_each_init: the range
\* of the pass and one (BufWriter, count) behind a mutex per shard
GroupOpen ==
    /\ sh.pc = "iter"
    /\ params.sharding \in {"Disk", "Hybrid"}
    /\ LET last == Min(sh.next + sh.on_disk, ph.shards)
       IN  sh' = [sh EXCEPT !.pc = "write", !.first = sh.next, !.last = last,
                            !.todo = keys,
                            !.files = [j \in 1 .. last - sh.next |->
                                          [bytes |-> <<>>, cnt |-> 0, lock |-> 0]]]
    /\ UNCHANGED <<fileVars, map, store, orig, th, parked, twin, chain, saves, phVars>>

\* ThreadLocalBuf::push: self.buf.push(h)
push(bufs, j, h) == [bufs EXCEPT ![j] = Append(bufs[j], h)]

\* the closure of for_each_init on one key, in a job of worker w; the first
\* key of a job runs init: one empty buffer per file
WorkerTake(w) ==
    /\ sh.pc = "write"
    /\ sh.workers[w].pc \in {"idle", "run"}
    /\ \E k \in sh.todo :
         LET h    == hash_key(k)
             j    == shard_of(h) - sh.first + 1
             bufs == IF sh.workers[w].pc = "idle"
                     THEN [i \in DOMAIN sh.files |-> <<>>]
                     ELSE sh.workers[w].bufs
         IN  IF shard_of(h) >= sh.first /\ shard_of(h) < sh.last
             THEN sh' = [sh EXCEPT
                           !.todo = sh.todo \ {k},
                           !.workers[w] =
                              [pc       |-> IF Len(bufs[j]) + 1 = LocalBufCapacity
                                            THEN "lock" ELSE "run",
                               bufs     |-> push(bufs, j, h),
                               j        |-> j,
                               dropping |-> FALSE]]
             ELSE sh' = [sh EXCEPT
                           !.todo = sh.todo \ {k},
                           !.workers[w] = [pc |-> "run", bufs |-> bufs, j |-> 0,
                                           dropping |-> FALSE]]
    /\ UNCHANGED <<fileVars, map, store, orig, th, parked, twin, chain, saves, phVars>>

\* the job of worker w ends: its buffers are dropped, first to last, and
\* Drop for ThreadLocalBuf flushes each
WorkerDrop(w) ==
    /\ sh.pc = "write"
    /\ sh.workers[w].pc = "run"
    /\ sh' = [sh EXCEPT !.workers[w].pc = "lock", !.workers[w].j = 1,
                        !.workers[w].dropping = TRUE]
    /\ UNCHANGED <<fileVars, map, store, orig, th, parked, twin, chain, saves, phVars>>

\* flush: let mut file = self.file.lock().unwrap()
FlushLock(w) ==
    /\ sh.pc = "write"
    /\ sh.workers[w].pc = "lock"
    /\ sh.files[sh.workers[w].j].lock = 0
    /\ sh' = [sh EXCEPT !.files[sh.workers[w].j].lock = w, !.workers[w].pc = "write"]
    /\ UNCHANGED <<fileVars, map, store, orig, th, parked, twin, chain, saves, phVars>>

\* flush that leaves the buffer as it is
flush_keep_buf(file, buf) ==
    [file |-> [bytes |-> file.bytes \o buf, cnt |-> file.cnt + Len(buf), lock |-> 0],
     buf  |-> buf]

\* flush under the lock: file.0.write_all(bytes); file.1 += self.buf.len();
\* self.buf.clear(); the guard is dropped
flush(file, buf) ==
    [file |-> [bytes |-> file.bytes \o buf, cnt |-> file.cnt + Len(buf), lock |-> 0],
     buf  |-> <<>>]

\* the rest of flush; a job that ends goes on to its next buffer
FlushWrite(w) ==
    /\ sh.pc = "write"
    /\ sh.workers[w].pc = "write"
    /\ LET j == sh.workers[w].j
           r == flush(sh.files[j], sh.workers[w].bufs[j])
       IN  sh' = [sh EXCEPT
                    !.files[j] = r.file,
                    !.workers[w] =
                       IF ~sh.workers[w].dropping
                       THEN [sh.workers[w] EXCEPT !.pc = "run", !.bufs[j] = r.buf]
                       ELSE IF j < Len(sh.files)
                       THEN [sh.workers[w] EXCEPT !.pc = "lock", !.j = j + 1,
                                                  !.bufs[j] = r.buf]
                       ELSE IdleWorker]
    /\ UNCHANGED <<fileVars, map, store, orig, th, parked, twin, chain, saves, phVars>>

\* for_each_init returns when every key was taken and every job has ended;
\* then every writer is flushed and every file is sought to its start
GroupFlush ==
    /\ sh.pc = "write"
    /\ sh.todo = {}
    /\ \A w \in Workers : sh.workers[w].pc = "idle"
    /\ sh' = [sh EXCEPT !.pc = "read"]
    /\ UNCHANGED <<fileVars, map, store, orig, th, parked, twin, chain, saves, phVars>>

\* the file of the next shard is read back: vec![default; cnt] and
\* read_exact, which fails on a file shorter than cnt
ReadShard ==
    /\ sh.pc = "read"
    /\ LET f == sh.files[sh.next - sh.first + 1]
       IN  IF f.cnt > Len(f.bytes)
           THEN sh' = [sh EXCEPT !.pc = "panic"]
           ELSE sh' = [sh EXCEPT
                         !.out = Append(sh.out, SubSeq(f.bytes, 1, f.cnt)),
                         !.next = sh.next + 1,
                         !.pc = IF sh.next + 1 < sh.last THEN "read"
                                ELSE IF sh.last < ph.shards THEN "iter"
                                ELSE "done"]
    /\ UNCHANGED <<fileVars, map, store, orig, th, parked, twin, chain, saves, phVars>>

Worker ==
    \E w \in Workers : WorkerTake(w) \/ WorkerDrop(w) \/ FlushLock(w) \/ FlushWrite(w)

NextShards ==
    Shards \/ NextNone \/ NextMemory \/ GroupOpen \/ Worker \/ GroupFlush \/ ReadShard

SpecShards == InitShards /\ [][NextShards]_vars

(***************************************************************************)
(* write_with_integrity through AtomicWriter, step by step, with I/O       *)
(* errors and crashes of the process; then overwriting cells of the saved  *)
(* file, and read_with_validation.                                         *)
(***************************************************************************)
\* the PersistedData values handed to write_with_integrity
FileData == {[keys |-> k, values |-> v, mphf_data |-> None] :
                k \in SeqsUpTo(0 .. MaxCell, MaxFileLen),
                v \in SeqsUpTo(0 .. MaxCell, MaxFileLen)}

\* an earlier save at the same path
OldFile == File(image([keys |-> <<0>>, values |-> <<0>>, mphf_data |-> None]))

InitFile ==
    /\ path \in Paths
    /\ data \in FileData
    /\ prev \in {NoFile, OldFile}
    /\ fs = [p \in Paths |-> IF p = path THEN prev ELSE NoFile]
    /\ writer = NoWriter
    /\ fpc = "start"
    /\ saved = "none"
    /\ edits = 0
    /\ rd = [ok |-> FALSE, err |-> "none"]
    /\ NoStoreCall
    /\ keys = {}
    /\ keys_len = 0
    /\ hx = "FastIntHash"
    /\ api = "file"
    /\ params = default_fast
    /\ ph = EmptyPtrHash
    /\ tries = 0
    /\ pilots = <<>>
    /\ taken = <<>>
    /\ shard = 0
    /\ bp = NoPart
    /\ pc = "start"
    /\ outcome = "none"
    /\ q = NoQuery

\* AtomicWriter::new: the temp file is created or truncated; or open fails
AtomicWriter_new ==
    /\ fpc = "start"
    /\ \/ /\ fs' = [fs EXCEPT ![with_extension(path, "tmp")] = File(<<>>)]
          /\ writer' = [open |-> TRUE, temp_path |-> with_extension(path, "tmp"),
                        final_path |-> path, buf |-> <<>>]
          /\ fpc' = "new"
          /\ UNCHANGED saved
       \/ /\ fpc' = "returned"
          /\ saved' = "Err"
          /\ UNCHANGED <<fs, writer>>
    /\ UNCHANGED <<path, data, prev, edits, rd, phVars, map, store, orig, th, sh, parked, twin, chain, saves>>

\* BufWriter::write_all: the buffer is written out when the bytes do not fit,
\* and bytes of a full buffer or more go to the file directly
buf_write(bytes) ==
    LET f == fs[writer.temp_path].bytes
        flush_first == Len(writer.buf) + Len(bytes) > BufCapacity
        f1 == IF flush_first THEN f \o writer.buf ELSE f
        b1 == IF flush_first THEN <<>> ELSE writer.buf
    IN  IF Len(bytes) >= BufCapacity
        THEN /\ fs' = [fs EXCEPT ![writer.temp_path] = File(f1 \o bytes)]
             /\ writer' = [writer EXCEPT !.buf = b1]
        ELSE /\ fs' = [fs EXCEPT ![writer.temp_path] = File(f1)]
             /\ writer' = [writer EXCEPT !.buf = b1 \o bytes]

\* writer.write_all(&header_bytes)
WriteHeader ==
    /\ fpc = "new"
    /\ buf_write(header_bytes(data))
    /\ fpc' = "header"
    /\ UNCHANGED <<path, data, prev, saved, edits, rd, phVars, map, store, orig, th, sh, parked, twin, chain, saves>>

\* writer.write_all(&data_bytes)
WriteData ==
    /\ fpc = "header"
    /\ buf_write(serialize_data(data))
    /\ fpc' = "data"
    /\ UNCHANGED <<path, data, prev, saved, edits, rd, phVars, map, store, orig, th, sh, parked, twin, chain, saves>>

\* commit: self.writer.flush()
CommitFlush ==
    /\ fpc = "data"
    /\ fs' = [fs EXCEPT ![writer.temp_path] = File(@.bytes \o writer.buf)]
    /\ writer' = [writer EXCEPT !.buf = <<>>]
    /\ fpc' = "flushed"
    /\ UNCHANGED <<path, data, prev, saved, edits, rd, phVars, map, store, orig, th, sh, parked, twin, chain, saves>>

\* commit: sync_all()
CommitSync ==
    /\ fpc = "flushed"
    /\ fpc' = "synced"
    /\ UNCHANGED <<path, data, prev, fs, writer, saved, edits, rd, phVars, map, store, orig, th, sh, parked, twin, chain, saves>>

\* std::fs::rename(from, to): nothing happens when both name the same file
rename(from, to) ==
    IF from = to THEN fs
    ELSE [fs EXCEPT ![to] = fs[from], ![from] = NoFile]

\* commit: std::fs::rename(&self.temp_path, &self.final_path)
CommitRename ==
    /\ fpc = "synced"
    /\ fs' = rename(writer.temp_path, writer.final_path)
    /\ fpc' = "renamed"
    /\ UNCHANGED <<path, data, prev, writer, saved, edits, rd, phVars, map, store, orig, th, sh, parked, twin, chain, saves>>

\* Drop for AtomicWriter: remove_file(&self.temp_path), its result ignored
drop_writer ==
    /\ fs' = [fs EXCEPT ![writer.temp_path] = NoFile]
    /\ writer' = NoWriter

\* commit returns Ok(()): self goes out of scope and is dropped
CommitReturn ==
    /\ fpc = "renamed"
    /\ drop_writer
    /\ saved' = "Ok"
    /\ fpc' = "returned"
    /\ UNCHANGED <<path, data, prev, edits, rd, phVars, map, store, orig, th, sh, parked, twin, chain, saves>>

\* write_all, flush, sync_all or rename fails: ? returns the error and the
\* writer is dropped without commit having finished
IoError ==
    /\ fpc \in {"new", "header", "data", "flushed", "synced"}
    /\ drop_writer
    /\ saved' = "Err"
    /\ fpc' = "returned"
    /\ UNCHANGED <<path, data, prev, edits, rd, phVars, map, store, orig, th, sh, parked, twin, chain, saves>>

\* the process dies between two steps: no destructor runs
Crash ==
    /\ fpc \in {"new", "header", "data", "flushed", "synced", "renamed"}
    /\ writer' = NoWriter
    /\ fpc' = "crashed"
    /\ UNCHANGED <<path, data, prev, fs, saved, edits, rd, phVars, map, store, orig, th, sh, parked, twin, chain, saves>>

\* the values a cell of a file can be overwritten with
CellValues(i) ==
    CASE i = 1 -> {MAGIC, MAGIC - 3}
      [] i = 2 -> {0, FORMAT_VERSION, FORMAT_VERSION + 1}
      [] i = 3 -> {0}
      [] i = 4 -> 0 .. Pow2(CrcBits) - 1
      [] i = 5 -> 0 .. MaxFileLen + 1
      [] i = 6 -> {0, RebuildOnLoad, RebuildOnLoad + 1}
      [] OTHER -> Bytes

\* a cell of the saved file is overwritten (fs::write of a changed copy)
Tamper ==
    /\ fpc = "returned"
    /\ saved = "Ok"
    /\ fs[path].exists
    /\ edits < MaxEdits
    /\ \E i \in 1 .. Len(fs[path].bytes) : \E b \in CellValues(i) :
          /\ b # fs[path].bytes[i]
          /\ fs' = [fs EXCEPT ![path] = File([@.bytes EXCEPT ![i] = b])]
    /\ edits' = edits + 1
    /\ UNCHANGED <<path, data, prev, writer, fpc, saved, rd, phVars, map, store, orig, th, sh, parked, twin, chain, saves>>

\* read_with_validation(path)
Read ==
    /\ fpc \in {"returned", "crashed"}
    /\ rd' = read_with_validation(fs[path])
    /\ fpc' = "read"
    /\ UNCHANGED <<path, data, prev, fs, writer, saved, edits, phVars, map, store, orig, th, sh, parked, twin, chain, saves>>

Save == AtomicWriter_new \/ WriteHeader \/ WriteData \/ CommitFlush \/ CommitSync
            \/ CommitRename \/ CommitReturn \/ IoError \/ Crash

NextFile == Save \/ Tamper \/ Read

SpecFile == InitFile /\ [][NextFile]_vars

(***************************************************************************)
(* verified_kv_store.rs: new_with_hasher, get, get_detailed, contains_key, *)
(* save_to_file and load_from_file.  The keys and values vectors get their *)
(* length by set_len and their entries by ptr::write: an entry no write    *)
(* reached is uninitialised memory.                                        *)
(***************************************************************************)
Values == 0 .. MaxCell

\* an entry of the keys or values vector that was never written
Uninit == 0 - 1

\* the elements of a Vec
Range(sq) == {sq[i] : i \in DOMAIN sq}

\* the loop that fills both vectors, ended one pair early
fill_all_but_last(ks, vs, len) ==
    LET zl == Min(Len(ks), Len(vs)) - 1
        in_vec == \A j \in 1 .. zl :
                      Cardinality(index(ks[j])) = 1 /\ index(ks[j]) \subseteq 0 .. len - 1
        at(i) == {j \in 1 .. zl : i \in index(ks[j])}
        last(i) == CHOOSE j \in at(i) : \A j2 \in at(i) : j2 <= j
    IN  [ok    |-> in_vec,
         store |-> [built  |-> TRUE,
                    len    |-> len,
                    keys   |-> [i \in 0 .. len - 1 |->
                                   IF at(i) = {} THEN Uninit ELSE ks[last(i)]],
                    values |-> [i \in 0 .. len - 1 |->
                                   IF at(i) = {} THEN Uninit ELSE vs[last(i)]]]]

\* the loop that fills both vectors: for (key, value) in zip(ks, vs) the pair
\* is written at mphf.index(&key); a later write replaces an earlier one.  A
\* write at an index that is no entry of the vectors is undefined behaviour.
fill(ks, vs, len) ==
    LET zl == Min(Len(ks), Len(vs))
        in_vec == \A j \in 1 .. zl :
                      Cardinality(index(ks[j])) = 1 /\ index(ks[j]) \subseteq 0 .. len - 1
        at(i) == {j \in 1 .. zl : i \in index(ks[j])}
        last(i) == CHOOSE j \in at(i) : \A j2 \in at(i) : j2 <= j
    IN  [ok    |-> in_vec,
         store |-> [built  |-> TRUE,
                    len    |-> len,
                    keys   |-> [i \in 0 .. len - 1 |->
                                   IF at(i) = {} THEN Uninit ELSE ks[last(i)]],
                    values |-> [i \in 0 .. len - 1 |->
                                   IF at(i) = {} THEN Uninit ELSE vs[last(i)]]]]

\* Result<&V, KvError> of get and get_detailed; a faulting call
Ok(v) == [ok |-> TRUE, v |-> v, err |-> "none"]
Err(e) == [ok |-> FALSE, v |-> Uninit, err |-> e]

\* if index < self.len && self.keys[index] == *key { Ok(&self.values[index]) }
\* else { Err(e) }; comparing with an uninitialised key can go either way
lookup(key, idx, e) ==
    IF idx = Fault THEN {Err("Fault")}
    ELSE IF idx < store.len
         THEN IF store.keys[idx] = Uninit THEN {Ok(store.values[idx]), Err(e)}
              ELSE IF store.keys[idx] = key THEN {Ok(store.values[idx])}
              ELSE {Err(e)}
         ELSE {Err(e)}

\* VerifiedKvStore::get: the results the call can have
get_key(key) == UNION {lookup(key, idx, "KeyNotFoundFast") : idx \in index(key)}

\* VerifiedKvStore::get_detailed
get_detailed(key) == UNION {lookup(key, idx, "KeyNotFound") : idx \in index(key)}

\* VerifiedKvStore::contains_key
contains_key(key) ==
    {IF r.err = "Fault" THEN "Fault" ELSE IF r.ok THEN "true" ELSE "false" :
        r \in get_key(key)}

\* iter(): self.keys.iter().zip(self.values.iter()), as a set of pairs
iter_pairs == {<<store.keys[i], store.values[i]>> : i \in 0 .. store.len - 1}

\* the vectors of the store as PersistedData
vec_of(f, len) == [i \in 1 .. len |-> f[i - 1]]

\* the files load_from_file is called on without a save before it: images of
\* PersistedData with any key list and any value list, and no file
LoadData == {[keys |-> k, values |-> v, mphf_data |-> None] :
                k \in SeqsUpTo(0 .. MaxCell, MaxLoad),
                v \in SeqsUpTo(Values, MaxLoad)}

LoadFiles == {File(image(d)) : d \in LoadData} \cup {NoFile}

InitStore ==
    /\ api \in {"store", "load"}
    /\ hx \in Hashers
    /\ params = default_fast
    /\ path = [stem |-> "store", ext |-> "bin"]
    /\ IF api = "store"
       THEN /\ keys \in {K \in SUBSET Keys : Cardinality(K) <= MaxN}
            /\ map \in [keys -> Values]
            /\ prev = NoFile
            /\ pc = "start"
       ELSE /\ keys = {}
            /\ map = <<>>
            /\ prev \in LoadFiles
            /\ pc = "file"
    /\ keys_len = Cardinality(keys)
    /\ fs = [p \in Paths |-> IF p = path THEN prev ELSE NoFile]
    /\ data = [keys |-> <<>>, values |-> <<>>, mphf_data |-> None]
    /\ writer = NoWriter
    /\ fpc = "idle"
    /\ saved = "none"
    /\ edits = 0
    /\ rd = [ok |-> FALSE, err |-> "none"]
    /\ store = NoStore
    /\ orig = NoOrig
    /\ th = [t \in Threads |-> IdleThread]
    /\ sh = NoShards
    /\ parked = NoParked
    /\ twin = NoTwin
    /\ chain = <<>>
    /\ saves = NoSaves
    /\ ph = EmptyPtrHash
    /\ tries = 0
    /\ pilots = <<>>
    /\ taken = <<>>
    /\ shard = 0
    /\ bp = NoPart
    /\ outcome = "none"
    /\ q = NoQuery

\* new_with_hasher after PtrHash::new returned: the vectors are filled from
\* the map and the store is returned
StoreFill ==
    /\ Returned
    /\ api = "store"
    /\ ~store.built
    /\ LET ks == SortedSeq(keys)
           f == fill(ks, [i \in 1 .. Len(ks) |-> map[ks[i]]], keys_len)
       IN  IF f.ok THEN store' = f.store /\ UNCHANGED outcome
           ELSE outcome' = "ub" /\ UNCHANGED store
    /\ UNCHANGED <<fileVars, map, orig, th, sh, parked, twin, chain, saves, keys, hx, api, params, ph, tries, pilots, taken,
                   shard, bp, pc, q, keys_len>>

\* get(&key)
Get ==
    /\ store.built
    /\ fpc \in {"idle", "read"}
    /\ q = NoQuery
    /\ \E key \in Keys : \E r \in get_key(key) :
          q' = [op |-> "get", key |-> key, result |-> r]
    /\ UNCHANGED <<storeVars, keys, hx, api, params, ph, tries, pilots, taken, shard, bp,
                   pc, outcome>>

\* get_detailed(&key)
GetDetailed ==
    /\ store.built
    /\ fpc \in {"idle", "read"}
    /\ q = NoQuery
    /\ \E key \in Keys : \E r \in get_detailed(key) :
          q' = [op |-> "get_detailed", key |-> key, result |-> r]
    /\ UNCHANGED <<storeVars, keys, hx, api, params, ph, tries, pilots, taken, shard, bp,
                   pc, outcome>>

\* contains_key(&key)
ContainsKey ==
    /\ store.built
    /\ fpc \in {"idle", "read"}
    /\ q = NoQuery
    /\ \E key \in Keys : \E r \in contains_key(key) :
          q' = [op |-> "contains_key", key |-> key, result |-> r]
    /\ UNCHANGED <<storeVars, keys, hx, api, params, ph, tries, pilots, taken, shard, bp,
                   pc, outcome>>

\* save_to_file: the PersistedData handed to write_with_integrity
SaveToFile ==
    /\ store.built
    /\ api = "store"
    /\ fpc = "idle"
    /\ q = NoQuery
    /\ data' = [keys |-> vec_of(store.keys, store.len),
                values |-> vec_of(store.values, store.len), mphf_data |-> None]
    /\ fpc' = "start"
    /\ UNCHANGED <<path, prev, fs, writer, saved, edits, rd, phVars, map, store, orig, th, sh, parked, twin, chain, saves>>

\* what the store answers: len, get of every key, and the pairs of iter
answers ==
    [some |-> TRUE, len |-> store.len, gets |-> [k \in Keys |-> get_key(k)],
     pairs |-> iter_pairs]

\* load_from_file up to PtrHash::new: read_with_validation(path)?, then
\* n = data.keys.len() and the key slice of the new index
LoadFromFile ==
    /\ \/ api = "load" /\ pc = "file"
       \/ api = "store" /\ store.built /\ fpc = "returned" /\ q = NoQuery
    /\ rd' = read_with_validation(fs[path])
    /\ fpc' = "read"
    /\ api' = "load"
    /\ orig' = IF store.built THEN answers ELSE NoOrig
    /\ store' = NoStore
    /\ IF rd'.ok
       THEN /\ data' = rd'.data
            /\ keys' = Range(rd'.data.keys)
            /\ keys_len' = Len(rd'.data.keys)
            /\ ph' = EmptyPtrHash
            /\ pc' = "start"
            /\ outcome' = "none"
       ELSE /\ pc' = "done"
            /\ outcome' = "Err"
            /\ UNCHANGED <<data, keys, keys_len, ph>>
    /\ UNCHANGED <<path, prev, fs, writer, saved, edits, map, th, sh, parked, twin, chain, saves, hx, params, tries,
                   pilots, taken, shard, bp, q>>

\* load_from_file after PtrHash::new returned: keys and values are written
\* at their new indices and the store is returned
LoadFill ==
    /\ Returned
    /\ api = "load"
    /\ ~store.built
    /\ LET f == fill(data.keys, data.values, Len(data.keys))
       IN  IF f.ok THEN store' = f.store /\ UNCHANGED outcome
           ELSE outcome' = "ub" /\ UNCHANGED store
    /\ UNCHANGED <<fileVars, map, orig, th, sh, parked, twin, chain, saves, keys, hx, api, params, ph, tries, pilots, taken,
                   shard, bp, pc, q, keys_len>>

StoreCalls == StoreFill \/ Get \/ GetDetailed \/ ContainsKey \/ SaveToFile
                \/ LoadFromFile \/ LoadFill

NextStore == Build \/ StoreCalls \/ Save \/ Return

SpecStore == InitStore /\ [][NextStore]_vars

(***************************************************************************)
(* Queries from several threads on a shared store: the store is behind an  *)
(* Arc and every thread calls index, get or contains_key through &self.    *)
(* A call takes one step per read of the shared structure: the pilot of    *)
(* the key's bucket, the remap entry of its slot, the key stored at its    *)
(* index.  The steps of different threads interleave freely.  A read past  *)
(* the end of a table that faults ends the process, and with it every      *)
(* thread's call.                                                          *)
(***************************************************************************)
ThreadOps == {"index", "get", "contains_key"}

\* the result of a call that the process did not survive
fault_of(op) ==
    CASE op = "index" -> Fault
      [] op = "get" -> Err("Fault")
      [] op = "contains_key" -> "Fault"
      [] OTHER -> 0

\* the process faults: no thread returns from its call
abort ==
    [u \in Threads |-> [th[u] EXCEPT !.pc = "killed", !.result = fault_of(th[u].op)]]

InitThreads ==
    /\ InitStore
    /\ api = "store"
    /\ hx \in {"FastIntHash", "Stub"}

\* a thread enters index, get or contains_key: hash_key, bucket, the pilot
\* read and the slot of index_no_remap
ThreadCall(t) ==
    /\ store.built
    /\ th[t].pc = "idle"
    /\ \E op \in ThreadOps : \E key \in Keys : \E s \in index_no_remap(key) :
          th' = IF s = Fault THEN abort
                ELSE [th EXCEPT ![t] = [pc |-> "slot", op |-> op, key |-> key,
                                        slot |-> s, idx |-> 0, result |-> 0]]
    /\ UNCHANGED <<fileVars, keys_len, map, store, orig, sh, parked, twin, chain, saves, phVars>>

\* index: if slot < self.n { slot } else { self.remap.index(slot - self.n) };
\* PtrHash::index returns here
ThreadRemap(t) ==
    /\ th[t].pc = "slot"
    /\ \E i \in minimal(th[t].slot) :
          th' = IF i = Fault THEN abort
                ELSE IF th[t].op = "index"
                     THEN [th EXCEPT ![t].pc = "done", ![t].idx = i, ![t].result = i]
                     ELSE [th EXCEPT ![t].pc = "index", ![t].idx = i]
    /\ UNCHANGED <<fileVars, keys_len, map, store, orig, sh, parked, twin, chain, saves, phVars>>

\* get: index < self.keys.len() && self.keys[index] == *key, then the value;
\* contains_key is the same test
ThreadVerify(t) ==
    /\ th[t].pc = "index"
    /\ \E r \in lookup(th[t].key, th[t].idx, "KeyNotFoundFast") :
          th' = [th EXCEPT ![t].pc = "done",
                           ![t].result = IF th[t].op = "get" THEN r
                                         ELSE IF r.ok THEN "true" ELSE "false"]
    /\ UNCHANGED <<fileVars, keys_len, map, store, orig, sh, parked, twin, chain, saves, phVars>>

\* the caller takes the result; the thread is free for its next call
ThreadReturn(t) ==
    /\ th[t].pc = "done"
    /\ th' = [th EXCEPT ![t] = IdleThread]
    /\ UNCHANGED <<fileVars, keys_len, map, store, orig, sh, parked, twin, chain, saves, phVars>>

ThreadStep ==
    \E t \in Threads :
        ThreadCall(t) \/ ThreadRemap(t) \/ ThreadVerify(t) \/ ThreadReturn(t)

NextThreads == Build \/ StoreFill \/ ThreadStep

SpecThreads == InitThreads /\ [][NextThreads]_vars

(***************************************************************************)
(* Properties.                                                             *)
(***************************************************************************)
\* the pilot table of the returned index was packed by a successful attempt
built == Returned /\ ph.pilots # <<>>

\* what index_stream and index_batch are compared with
expected(MINIMAL, key) == IF MINIMAL THEN index(key) ELSE index_no_remap(key)

RECURSIVE SumSeq(_)
SumSeq(sq) == IF sq = <<>> THEN 0 ELSE Head(sq) + SumSeq(Tail(sq))

\* two distinct build keys with the same hash under every seed
always_colliding ==
    \E k1, k2 \in keys :
        k1 # k2 /\ \A sd \in Seeds : hash(hx, k1, sd) = hash(hx, k2, sd)

\* C1: with remap enabled and N >= 1, an index returned by new or try_new
\* maps every build key below N and no two build keys to the same value:
\* the build keys are mapped one-to-one onto 0 .. N - 1.
C1_Bijection ==
    (Returned /\ api \in {"new", "try_new"} /\ params.remap /\ ph.n >= 1) =>
        /\ \A k \in keys : \E v \in 0 .. ph.n - 1 : index(k) = {v}
        /\ \A k1, k2 \in keys : k1 # k2 => index(k1) # index(k2)
        /\ UNION {index(k) : k \in keys} = 0 .. ph.n - 1
        /\ (q.op = "index" /\ q.key \in keys) => q.result \in 0 .. ph.n - 1

\* index was called on a build key whose slot lies at or above n, so that
\* the remap table answered
C1_Witness ==
    /\ Returned /\ api = "new" /\ params.remap /\ ph.n >= 2
    /\ q.op = "index" /\ q.key \in keys
    /\ \E sl \in index_no_remap(q.key) : sl >= ph.n

\* C2: index(key) of any key, build key or not, on a built index returns a
\* value in [0, N) and reads neither the pilot nor the remap table out of
\* bounds: a slot at or above N has slot - N below the remap table's length.
C2_IndexInBounds ==
    (built /\ params.remap /\ ph.n >= 1 /\ q.op = "index") =>
        /\ q.result \in 0 .. ph.n - 1
        /\ bucket(hash_key(q.key)) \in DOMAIN ph.pilots
        /\ \A sl \in index_no_remap(q.key) : sl >= ph.n => sl - ph.n < Len(ph.remap)

\* C3: for every key, build key or not, of every built index,
\* index_no_remap(key) < max_index().
C3_NoRemapBelowMaxIndex ==
    (built /\ q.op = "index_no_remap") => q.result \in 0 .. max_index - 1

\* the bound holds on every index built over at least one key
NoRemapBelowMaxIndexNonEmpty ==
    (built /\ ph.n >= 1 /\ q.op = "index_no_remap") => q.result \in 0 .. max_index - 1

C5_step ==
    /\ tries <= MAX_TRIES /\ tries' <= MAX_TRIES
    /\ api = "try_new" => outcome' # "panic"
    /\ (outcome = "none" /\ outcome' = "None") =>
           api = "try_new" /\ pc = "seed" /\ tries = MAX_TRIES
    /\ (pc = "seed" /\ tries = MAX_TRIES) =>
           /\ pc' = "done"
           /\ api = "try_new" => outcome' = "None"
           /\ api = "new" => outcome' = "panic"

C6_IndistinguishableHashes ==
    /\ tries <= MAX_TRIES
    /\ (always_colliding /\ pc = "done") => outcome \in {"panic", "None"}

\* C7: new_from_par_iter returns no index when all 10 seeds failed: the
\* index it returns has a pilot table built by a successful attempt.
C7_ParIterAsNew ==
    (api = "new_from_par_iter" /\ Returned) => ph.pilots # <<>>

\* C8: for every key sequence and every buffer size B, index_stream yields
\* as many values as keys, the i-th equal to index(k_i) (MINIMAL) or
\* index_no_remap(k_i); over the build keys with MINIMAL the sum is
\* N * (N - 1) / 2.
C8_StreamEqualsIndex ==
    (built /\ params.remap /\ ph.n >= 1 /\ q.op = "index_stream") =>
        /\ q.phase \in {"fold", "done"}
        /\ q.phase = "done" =>
              /\ Len(q.out) = Len(q.input)
              /\ \A i \in DOMAIN q.out : {q.out[i]} = expected(q.MINIMAL, q.input[i])
        /\ (q.phase = "done" /\ q.MINIMAL /\ q.input = SortedSeq(keys)) =>
              2 * SumSeq(q.out) = ph.n * (ph.n - 1)

\* C9: index_batch(xs)[i] equals index(xs[i]) (MINIMAL) or
\* index_no_remap(xs[i]), at every position i.
C9_BatchEqualsIndex ==
    (built /\ params.remap /\ ph.n >= 1 /\ q.op = "index_batch") =>
        /\ ~q.fault
        /\ Len(q.result) = Len(q.xs)
        /\ \A i \in DOMAIN q.xs : {q.result[i]} = expected(q.MINIMAL, q.xs[i])

\* C10: on an index built with single_part = true, for every key,
\* index_single_part(k) = index(k) and
\* index_single_part_no_remap(k) = index_no_remap(k).
C10_SinglePartEqualsIndex ==
    (built /\ params.single_part /\ params.remap /\ ph.n >= 1) =>
        /\ q.op = "index_single_part" => {q.result} = index(q.key)
        /\ q.op = "index_single_part_no_remap" => {q.result} = index_no_remap(q.key)

(***************************************************************************)
(* The batched and single-part queries agree with index / index_no_remap   *)
(* on every key whose lookups stay inside the pilot and remap tables.      *)
(***************************************************************************)
\* the lookups of every key of ks are in bounds: one result, no fault
in_bounds(ks, MINIMAL) ==
    \A i \in DOMAIN ks :
        /\ Cardinality(expected(MINIMAL, ks[i])) = 1
        /\ Fault \notin expected(MINIMAL, ks[i])

StreamEqualsIndexInBounds ==
    (built /\ q.op = "index_stream" /\ q.B >= 1 /\ in_bounds(q.input, q.MINIMAL)) =>
        /\ q.phase \in {"fold", "done"}
        /\ q.phase = "done" =>
              /\ Len(q.out) = Len(q.input)
              /\ \A i \in DOMAIN q.out : {q.out[i]} = expected(q.MINIMAL, q.input[i])
        /\ (q.phase = "done" /\ q.MINIMAL /\ params.remap /\ q.input = SortedSeq(keys)) =>
              2 * SumSeq(q.out) = ph.n * (ph.n - 1)

\* with B = 0 the fold of a non-empty key sequence never returns
StreamZeroBufferPanics ==
    (built /\ q.op = "index_stream" /\ q.B = 0 /\ q.input # <<>>) => q.phase # "done"

BatchEqualsIndexInBounds ==
    (built /\ q.op = "index_batch" /\ in_bounds(q.xs, q.MINIMAL)) =>
        /\ ~q.fault
        /\ Len(q.result) = Len(q.xs)
        /\ \A i \in DOMAIN q.xs : {q.result[i]} = expected(q.MINIMAL, q.xs[i])

SinglePartEqualsIndexInBounds ==
    built =>
        /\ (q.op = "index_single_part" /\ in_bounds(<<q.key>>, TRUE)) =>
               {q.result} = index(q.key)
        /\ q.op = "index_single_part_no_remap" => {q.result} = index_no_remap(q.key)

(***************************************************************************)
(* The taken bitmap and the remap table after the pilot search.            *)
(***************************************************************************)
\* C19: when the pilot search has succeeded for every part of every shard,
\* exactly N slots are marked taken and slots_total - N are free: the
\* assert_eq at the start of remap_free_slots holds.
C19_FreeSlotCount ==
    pc = "remap" =>
        /\ count_zeros = ph.slots_total - ph.n
        /\ Cardinality({x \in (0 .. ph.parts - 1) \X (0 .. ph.slots - 1) :
                            taken[x[1]][x[2]]}) = ph.n

\* the pilot search succeeded for two or more keys and left free slots
C19_Witness == pc = "remap" /\ ph.n >= 2 /\ ph.slots_total > ph.n

\* C20: after a successful build the remap table has exactly
\* slots_total - N entries when remap is enabled and none when it is disabled.
C20_RemapLength ==
    built => Len(ph.remap) = IF params.remap THEN ph.slots_total - ph.n ELSE 0

\* the remap table is never longer than slots_total - N, and it is empty when
\* remap is disabled
RemapLengthAtMost ==
    built => Len(ph.remap) <= IF params.remap THEN ph.slots_total - ph.n ELSE 0

\* what get, get_detailed and contains_key of a key must answer for the map
expected_answer(op, key) ==
    CASE op = "get" ->
             IF key \in DOMAIN map THEN Ok(map[key]) ELSE Err("KeyNotFoundFast")
      [] op = "get_detailed" ->
             IF key \in DOMAIN map THEN Ok(map[key]) ELSE Err("KeyNotFound")
      [] op = "contains_key" ->
             IF key \in DOMAIN map THEN "true" ELSE "false"

StoreOps == {"get", "get_detailed", "contains_key"}

\* C11: on a VerifiedKvStore built from a map, get(k) is Ok(v) exactly when
\* (k, v) is in the map and Err(KeyNotFoundFast) otherwise (get_detailed:
\* Err(KeyNotFound)); contains_key(k) is true exactly for the keys of the map.
C11_GetExact ==
    (store.built /\ api = "store" /\ q.op \in StoreOps) =>
        q.result = expected_answer(q.op, q.key)

\* the store never returns another key's value, and answers exactly for the
\* keys of the map: a call that returns a value returns the map's value
GetNeverWrongValue ==
    (store.built /\ api = "store" /\ q.op \in StoreOps) =>
        /\ q.key \in DOMAIN map => q.result = expected_answer(q.op, q.key)
        /\ q.key \notin DOMAIN map =>
              IF q.op = "contains_key" THEN q.result \in {"false", "Fault"}
              ELSE q.result \in {expected_answer(q.op, q.key), Err("Fault")}

\* C12: the store load_from_file returns after save_to_file has the same
\* len, the same get result for every key, present or absent, and the same
\* set of pairs in iter.
C12_RoundTrip ==
    (store.built /\ api = "load" /\ orig.some) =>
        /\ store.len = orig.len
        /\ iter_pairs = orig.pairs
        /\ \A k \in Keys : get_key(k) = orig.gets[k] /\ Cardinality(get_key(k)) = 1

\* the round trip keeps len, the pairs, and get of every key of the store;
\* get of a key that is not in the store returns no value on either side
RoundTripPresentKeys ==
    (store.built /\ api = "load" /\ orig.some) =>
        /\ store.len = orig.len
        /\ iter_pairs = orig.pairs
        /\ iter_pairs = {<<k, map[k]>> : k \in DOMAIN map}
        /\ \A k \in DOMAIN map : get_key(k) = orig.gets[k] /\ get_key(k) = {Ok(map[k])}
        /\ \A k \in Keys \ DOMAIN map : \A r \in get_key(k) \cup orig.gets[k] : ~r.ok

\* the data of a file is structurally invalid: the key list and the value
\* list differ in length, or a key occurs twice
structurally_invalid(d) ==
    \/ Len(d.keys) # Len(d.values)
    \/ Cardinality(Range(d.keys)) # Len(d.keys)

\* C14: load_from_file on a file whose data is structurally invalid returns
\* an error: it neither panics nor returns a store.
C14_LoadRejectsInvalid ==
    (api = "load" /\ ~orig.some /\ rd.ok /\ structurally_invalid(rd.data)
     /\ pc = "done")
        => outcome = "Err"

\* load_from_file on structurally valid data returns a store with every
\* entry written, or panics in PtrHash::new
LoadValidFillsAll ==
    (api = "load" /\ rd.ok /\ ~structurally_invalid(rd.data) /\ store.built) =>
        /\ store.len = Len(rd.data.keys)
        /\ iter_pairs = {<<rd.data.keys[i], rd.data.values[i]>> : i \in DOMAIN rd.data.keys}

\* C18: init accepts every key count from 1 up to the documented maximum, for
\* example 10^9 keys with the default parameters: it returns a layout and
\* does not abort the build.
C18_InitAccepts ==
    (api = "init" /\ pc = "done" /\ keys_len >= 1 /\ params = default_fast)
        => outcome = "init"

\* with the default parameters init accepts the key counts up to 2 * 10^8
InitAcceptsDefaultFast ==
    (api = "init" /\ pc = "done" /\ params = default_fast /\ keys_len <= 200000000)
        => outcome = "init"

\* the header and the data section of a file
file_header(f) == SubSeq(f.bytes, 1, HeaderLen)
file_data(f) == SubSeq(f.bytes, HeaderLen + 1, Len(f.bytes))

\* the file at path was saved, and then its data section, and only its data
\* section, was modified
data_modified ==
    /\ saved = "Ok"
    /\ fs[path].exists
    /\ file_header(fs[path]) = header_bytes(data)
    /\ file_data(fs[path]) # serialize_data(data)

\* the checks of read_with_validation, stated on the cells of the file
checks_pass(f) ==
    /\ f.exists
    /\ Len(f.bytes) >= HeaderLen
    /\ f.bytes[1] = MAGIC
    /\ f.bytes[2] = FORMAT_VERSION
    /\ f.bytes[6] \in {0, 1}
    /\ calculate_checksum(file_data(f)) = f.bytes[4]
    /\ deserialize_data(file_data(f)).ok
    /\ Len(deserialize_data(file_data(f)).data.keys) = f.bytes[5]

\* C13 as stated: read_with_validation returns data only if all checks pass,
\* so that a file whose data section was modified after saving is rejected.
C13_Original ==
    fpc = "read" =>
        /\ rd.ok => checks_pass(fs[path])
        /\ data_modified => ~rd.ok

\* C13: read_with_validation returns the decoded data exactly when magic,
\* version, strategy, checksum and key count pass, and an error otherwise; a
\* file whose data section was modified after saving is rejected unless the
\* modified section has the checksum and the key count of the saved one.
C13_ReadValidates ==
    fpc = "read" =>
        /\ rd.ok <=> checks_pass(fs[path])
        /\ rd.ok => rd.data = deserialize_data(file_data(fs[path])).data
        /\ (data_modified /\ rd.ok) =>
              /\ calculate_checksum(file_data(fs[path]))
                    = calculate_checksum(serialize_data(data))
              /\ Len(rd.data.keys) = Len(data.keys)

\* a saved file with a modified data section was read and rejected for its
\* checksum
C13_Witness ==
    fpc = "read" /\ data_modified /\ ~rd.ok /\ rd.err = "Checksum mismatch"

\* C15: for every target path, after new, the writes and a successful commit
\* the file at the path holds exactly the written bytes; when the writer is
\* dropped without commit the path is as it was before and the temporary
\* file is gone.
C15_CommitOrRollback ==
    (fpc = "returned" /\ edits = 0) =>
        IF saved = "Ok"
        THEN fs[path] = File(image(data))
        ELSE fs[path] = prev /\ ~fs[with_extension(path, "tmp")].exists

\* the same for the target paths whose extension is not tmp
CommitOrRollbackOtherPaths ==
    path.ext # "tmp" => C15_CommitOrRollback

\* C16: at every point of a save, also when the process dies there, the file
\* at the target path is absent, or what it was before, or the complete new
\* image.
C16_CrashAtomic ==
    (fpc \in {"start", "new", "header", "data", "flushed", "synced", "renamed",
              "crashed"}
     \/ (fpc = "returned" /\ edits = 0))
        => fs[path] \in {NoFile, prev, File(image(data))}

\* the same for the target paths whose extension is not tmp
CrashAtomicOtherPaths ==
    path.ext # "tmp" => C16_CrashAtomic

\* the results the call op(key) can have when it is the only call running
alone(op, key) ==
    CASE op = "index" -> index(key)
      [] op = "get" -> get_key(key)
      [] op = "contains_key" -> contains_key(key)

\* a thread whose call has ended: it returned, or the process faulted under it
ended(t) == th[t].pc \in {"done", "killed"} /\ th[t].op \in ThreadOps

QueriesAreReads == [][ThreadStep => (ph' = ph /\ store' = store)]_vars

\* a call that returns, returns one of the results it has when run alone; on
\* a key of the map that is the map's value whatever the other threads did
ReturnedAsAlone ==
    \A t \in Threads :
        (th[t].pc = "done") =>
            /\ th[t].result \in alone(th[t].op, th[t].key)
            /\ (th[t].key \in DOMAIN map /\ th[t].op # "index") =>
                  th[t].result = expected_answer(th[t].op, th[t].key)

\* while no call has read past the end of the remap table, no thread is ended
\* by another: every call in flight is still running or has returned
NoFaultNoKill ==
    (\A t \in Threads : th[t].pc # "killed") \/
    (\E t \in Threads : th[t].op \in ThreadOps /\ Fault \in index(th[t].key))

\* C21: when remap_free_slots builds the remap table R, the j-th taken slot
\* s >= N (in increasing slot order) has an entry R[s - N], and that entry is
\* the j-th free slot below N (in increasing order); two distinct taken
\* slots at or above N never get the same target.
C21_RemapInOrder ==
    [][(Remap /\ outcome' = "index" /\ params.remap) =>
          LET over == taken_from_n
              R    == ph'.remap
          IN  /\ Len(over) = Len(free_below_n)
              /\ \A j \in 1 .. Len(over) :
                    /\ over[j] - ph.n + 1 \in DOMAIN R
                    /\ R[over[j] - ph.n + 1] = free_below_n[j]
              /\ \A i, j \in 1 .. Len(over) :
                    i # j => R[over[i] - ph.n + 1] # R[over[j] - ph.n + 1]]_vars

\* an index was returned in which two build keys have slots at or above N,
\* below a free slot at or above N, and the remap table sends them to two
\* different slots below N
C21_Witness ==
    /\ built /\ params.remap /\ ph.n >= 2
    /\ \E k1, k2 \in keys :
          \E s1 \in index_no_remap(k1) : \E s2 \in index_no_remap(k2) :
             /\ ph.n <= s1 /\ s1 < s2
             /\ s2 - ph.n + 1 \in DOMAIN ph.remap
             /\ s2 - s1 >= 2
             /\ ph.remap[s1 - ph.n + 1] < ph.remap[s2 - ph.n + 1]

\* a pop of the eviction chain is made
chain_pop == pc = "part" /\ bp.active /\ bp.stack # <<>>

\* C22: within build_part, whenever the number of evictions in the chain
\* started by one bucket exceeds 10 * slots_per_part, the next pop declares
\* the part unsolvable (build_part returns None) instead of placing and
\* evicting further buckets.
C22_Original ==
    [][(chain_pop /\ bp.evictions > EvictionFactor * ph.slots) => pc' = "seed"]_vars

\* C22, amended: a chain is given up exactly at a pop whose eviction count is
\* a power of two and at least 10 * slots_per_part; at every other count,
\* also above 10 * slots_per_part, build_part goes on placing and evicting.
C22_BudgetAtPowersOfTwo ==
    [][chain_pop =>
          (pc' = "seed" <=> /\ IsPowerOfTwo(bp.evictions)
                            /\ bp.evictions >= EvictionFactor * ph.slots)]_vars

\* a chain went past 10 * slots_per_part evictions and was given up at the
\* next power of two
C22_Witness ==
    /\ api = "build_part" /\ pc = "part" /\ bp.stack # <<>>
    /\ bp.evictions > EvictionFactor * ph.slots + 1
    /\ IsPowerOfTwo(bp.evictions)

\* a seed attempt fails: sort_parts found duplicate hashes, or build_part
\* returned None; compute_pilots is back at the head of the seed loop
attempt_fails == pc \in {"shard", "part"} /\ pc' = "seed"

\* the tables of an attempt that starts: every pilot 0, every slot free
fresh_tables ==
    /\ pilots' = [b \in 0 .. ph.buckets_total - 1 |-> 0]
    /\ taken' = [pt \in 0 .. ph.parts - 1 |-> [sl \in 0 .. ph.slots - 1 |-> FALSE]]
    /\ shard' = 0
    /\ bp' = NoPart

\* the step that returns an index is the last step of a successful attempt,
\* and the index holds that attempt's seed, pilots and remap table
from_successful_attempt ==
    /\ pc = "remap"
    /\ ph'.seed = ph.seed
    /\ ph'.pilots = pilots
    /\ ph'.remap = IF params.remap /\ ph.slots_total # ph.n THEN remap_vector ELSE <<>>

\* C23: a failed seed attempt leaves the remaining shards of the attempt
\* unbuilt and goes to the head of the seed loop; the attempt that follows
\* draws a seed and starts from pilots all 0 and slots all free, and its
\* parts hold hashes computed under its own seed; an index that is returned
\* has the seed, the pilot table and the remap table of one successful
\* attempt.
C23_FullRestart ==
    [][/\ attempt_fails => UNCHANGED <<pilots, taken, shard, ph>>
       /\ (pc = "seed" /\ pc' = "shard") =>
              fresh_tables /\ ph'.seed \in Seeds /\ tries' = tries + 1
       /\ (pc' = "part") =>
              \A b \in DOMAIN bp'.bucket : \A i \in DOMAIN bp'.bucket[b] :
                 \E k \in keys : bp'.bucket[b][i] = hash(hx, k, ph'.seed)
       /\ (outcome = "none" /\ outcome' = "index") => from_successful_attempt]_vars

\* the same, for the constructors that do not return after the last failed
\* attempt: new, try_new and the store
FullRestartOfNew ==
    [][/\ attempt_fails => UNCHANGED <<pilots, taken, shard, ph>>
       /\ (pc = "seed" /\ pc' = "shard") =>
              fresh_tables /\ ph'.seed \in Seeds /\ tries' = tries + 1
       /\ (pc' = "part") =>
              \A b \in DOMAIN bp'.bucket : \A i \in DOMAIN bp'.bucket[b] :
                 \E k \in keys : bp'.bucket[b][i] = hash(hx, k, ph'.seed)
       /\ (outcome = "none" /\ outcome' = "index" /\ api # "new_from_par_iter") =>
              from_successful_attempt]_vars

\* the hashes of the input keys
key_hashes == {hash_key(k) : k \in keys}

\* how often h occurs in the vector v
count(v, h) == Cardinality({i \in DOMAIN v : v[i] = h})

\* how many input keys have hash h, the hash lying in shard i
keys_with(h, i) == Cardinality({k \in keys : hash_key(k) = h /\ shard_of(h) = i})

\* C24: in every sharding mode the vectors the shard iterator has yielded
\* are those of the shards 0, 1, .. in this order, the vector of shard i
\* holds exactly the hashes h of the input keys with shard(h) = i, one entry
\* per key, and an exhausted iterator has yielded exactly `shards` vectors;
\* so every key's hash is in exactly one vector.
C24_ShardVectors ==
    (api = "shards" /\ sh.pc \in {"iter", "write", "read", "done"}) =>
        /\ Len(sh.out) = sh.next
        /\ \A i \in 1 .. Len(sh.out) :
              /\ \A x \in DOMAIN sh.out[i] : sh.out[i][x] \in key_hashes
              /\ \A h \in key_hashes : count(sh.out[i], h) = keys_with(h, i - 1)
        /\ sh.pc = "done" =>
              /\ Len(sh.out) = ph.shards
              /\ \A k \in keys :
                    \E i \in 1 .. Len(sh.out) :
                       /\ count(sh.out[i], hash_key(k)) >= 1
                       /\ \A j \in 1 .. Len(sh.out) :
                             j # i => count(sh.out[j], hash_key(k)) = 0

\* an iterator over at least two shards is exhausted, two of its vectors
\* hold hashes, in memory and on disk
C24_Witness ==
    /\ api = "shards" /\ sh.pc = "done" /\ ph.shards >= 2
    /\ \E i, j \in 1 .. Len(sh.out) : i # j /\ sh.out[i] # <<>> /\ sh.out[j] # <<>>

\* the keys of the pass that a worker has taken
taken_keys == keys \ sh.todo

\* how often h lies in a buffer for file j of some worker
buffered(j, h) ==
    LET holds(w) == IF sh.workers[w].pc = "idle" THEN 0
                    ELSE count(sh.workers[w].bufs[j], h)
        RECURSIVE sum(_)
        sum(W) == IF W = {} THEN 0
                  ELSE LET w == CHOOSE x \in W : TRUE IN holds(w) + sum(W \ {w})
    IN  sum(Workers)

\* C25: in Disk and Hybrid sharding, under every interleaving of the
\* workers, the hash of every key taken so far whose shard is in the range
\* of the pass lies exactly once in that shard's file or in one buffer for
\* it; the count of a file is the number of hashes in the file; and when the
\* files are read back every buffer has been flushed, so each file holds
\* every hash of its shard exactly once.
C25_DiskShards ==
    (api = "shards" /\ sh.pc \in {"write", "read"}) =>
        /\ \A j \in DOMAIN sh.files :
              /\ sh.files[j].cnt = Len(sh.files[j].bytes)
              /\ \A x \in DOMAIN sh.files[j].bytes : sh.files[j].bytes[x] \in key_hashes
              /\ \A h \in key_hashes :
                    count(sh.files[j].bytes, h) + buffered(j, h) =
                       Cardinality({k \in taken_keys :
                                       /\ hash_key(k) = h
                                       /\ shard_of(h) = sh.first + j - 1})
        /\ sh.pc = "read" =>
              /\ sh.todo = {}
              /\ \A w \in Workers : sh.workers[w] = IdleWorker
              /\ \A j \in DOMAIN sh.files : \A h \in key_hashes :
                    count(sh.files[j].bytes, h) = keys_with(h, sh.first + j - 1)

\* the files of a pass are read back, one of them written by more than one
\* flush
C25_Witness ==
    /\ api = "shards" /\ sh.pc = "read"
    /\ \E j \in DOMAIN sh.files : Len(sh.files[j].bytes) > LocalBufCapacity


(***************************************************************************)
(* The layout init computes.                                               *)
(***************************************************************************)
\* keys_per_part of init, from the struct it returned
keys_per_part == ph.n \div ph.parts

\* C28 as stated: for every configuration init accepts,
\* slots_per_part > buckets_per_part > 0.
C28_Original ==
    outcome = "init" => ph.slots > ph.buckets /\ ph.buckets > 0

\* C28: for every configuration init accepts with N >= 1, alpha <= 0.99 and
\* lambda >= 3, buckets_per_part >= 4 and slots_per_part >= 2, and
\* slots_per_part > buckets_per_part once keys_per_part >= 6; the three extra
\* buckets make buckets_per_part the larger one for the smallest parts.
C28_SlotsAndBuckets ==
    outcome = "init" =>
        /\ ph.buckets >= 4
        /\ ph.slots >= 2
        /\ keys_per_part >= 6 => ph.slots > ph.buckets

\* init returned a layout of several parts with more slots than buckets
C28_Witness ==
    /\ outcome = "init"
    /\ keys_per_part >= 6
    /\ ph.slots > ph.buckets
    /\ ph.parts > 1

\* C29: for every N >= 1 and every sharding setting, parts >= 1 is a multiple
\* of shards and parts_per_shard = parts / shards >= 1, so that the pilot
\* table and the taken bitmaps split into shards non-empty chunks.
C29_PartsPerShard ==
    outcome = "init" =>
        /\ ph.parts >= 1
        /\ ph.parts % ph.shards = 0
        /\ ph.parts_per_shard >= 1

\* sharding leaves the layout of 10000 keys and more a multiple of shards
PartsPerShardFromSmallN ==
    (outcome = "init" /\ ph.n >= SmallN) =>
        /\ ph.parts >= 1
        /\ ph.parts % ph.shards = 0
        /\ ph.parts_per_shard >= 1

\* f is the floor of keys_per_part / alpha
is_floor_of_slots(f) ==
    /\ f * params.alpha[1] <= keys_per_part * params.alpha[2]
    /\ keys_per_part * params.alpha[2] < (f + 1) * params.alpha[1]

\* c is the ceiling of keys_per_part / alpha
is_ceil_of_slots(c) ==
    /\ (c - 1) * params.alpha[1] < keys_per_part * params.alpha[2]
    /\ keys_per_part * params.alpha[2] <= c * params.alpha[1]

\* c is the ceiling of keys_per_part / lambda
is_ceil_of_buckets(c) ==
    /\ (c - 1) * params.lambda[1] < keys_per_part * params.lambda[2]
    /\ keys_per_part * params.lambda[2] <= c * params.lambda[1]

\* v, or v + 1 when v is a power of two
avoid_power_of_two(v) == IF IsPowerOfTwo(v) THEN v + 1 ELSE v

slots_under(hs, p) == {slot_in_part(hs[i], p) : i \in DOMAIN hs}

\* the pilots under which the hashes hs fall on Len(hs) free slots of tk
free_pilots(hs, tk) ==
    {p \in 0 .. kmax - 1 :
        /\ Cardinality(slots_under(hs, p)) = Len(hs)
        /\ \A s \in slots_under(hs, p) : ~tk[s]}

\* every bucket, in bucket order, takes the smallest pilot that puts its
\* keys on free slots; st = [ok, pilots, taken], ok until a bucket has none
RECURSIVE smallest_free_from(_, _, _, _)
smallest_free_from(bk, order, i, st) ==
    IF i > Len(order) \/ ~st.ok THEN st
    ELSE LET b  == order[i]
             fp == free_pilots(bk[b], st.taken)
         IN  IF Len(bk[b]) = 0 THEN smallest_free_from(bk, order, i + 1, st)
             ELSE IF fp = {} THEN [st EXCEPT !.ok = FALSE]
             ELSE smallest_free_from(bk, order, i + 1,
                     [ok     |-> TRUE,
                      pilots |-> [st.pilots EXCEPT ![b] = SetMin(fp)],
                      taken  |-> [s \in DOMAIN st.taken |->
                                     st.taken[s] \/ s \in slots_under(bk[b], SetMin(fp))]])

smallest_free(pt) ==
    LET bk == sort_buckets_starts(pt)
    IN  smallest_free_from(bk, sort_buckets_order(bk), 1,
            [ok     |-> TRUE,
             pilots |-> [b \in 0 .. ph.buckets - 1 |-> 0],
             taken  |-> [s \in 0 .. ph.slots - 1 |-> FALSE]])

\* both calls of build_part have returned Some
both_built == api = "build_part" /\ pc = "remap" /\ twin.active

\* C27 as stated: two runs of build_part on the same hashes with the same seed
\* produce the same pilot bytes and the same taken bitmap.
C27_Original ==
    both_built => (pilots = twin.pilots /\ taken = twin.taken)

\* C27: when every bucket of the part, taken in bucket order, has a pilot
\* that puts its keys on free slots, build_part writes the smallest such
\* pilot for each bucket, and two runs on the same hashes with the same seed
\* produce the same pilot bytes and the same taken bitmap.
C27_SameWithoutEviction ==
    (api = "build_part" /\ pc = "remap" /\ smallest_free(0).ok) =>
        /\ \A b \in 0 .. ph.buckets - 1 : pilots[b] = smallest_free(0).pilots[b]
        /\ taken[0] = smallest_free(0).taken
        /\ twin.active => (pilots = twin.pilots /\ taken = twin.taken)

\* both runs placed two buckets or more without an eviction, not all on pilot 0
C27_Witness ==
    /\ both_built
    /\ smallest_free(0).ok
    /\ Cardinality({b \in 0 .. ph.buckets - 1 : Len(sort_buckets_starts(0)[b]) > 0}) >= 2
    /\ \E b \in 0 .. ph.buckets - 1 : pilots[b] > 0


(***************************************************************************)
(* The parts of a shard built side by side.                                *)
(***************************************************************************)
\* the pilots of part pt: pilots[pt * buckets_per_part .. (pt + 1) * buckets_per_part)
own_pilots(pt) == pt * ph.buckets .. (pt + 1) * ph.buckets - 1

\* a step of build_shard changes the pilots and the bitmap of the part of
\* the build_part call that takes it, and of no other part
writes_own_part ==
    /\ \A i \in DOMAIN pilots : pilots'[i] # pilots[i] => i \in own_pilots(bp.part)
    /\ \A pt \in DOMAIN taken : taken'[pt] # taken[pt] => pt = bp.part

\* the build_part calls of a shard are on different parts, one per chunk
one_call_per_part ==
    /\ bp.part = part_of_chunk(bp.part_in_shard)
    /\ \A p \in DOMAIN parked :
          parked[p].status = "parked" =>
              /\ parked[p].locals.part = part_of_chunk(p)
              /\ parked[p].locals.part # bp.part

\* the tables of part pt are those of the smallest pilots on free slots
built_as_alone(pt) ==
    /\ \A b \in 0 .. ph.buckets - 1 :
          pilots[pt * ph.buckets + b] = smallest_free(pt).pilots[b]
    /\ taken[pt] = smallest_free(pt).taken

at_pop == pc = "part" /\ bp.active /\ bp.stack # <<>>

\* the bucket stack.pop() returns
popped == bp.stack[heap_top(bp.stack)][2]

\* tk with the slots of the hashes hs under pilot p taken
with_slots(tk, hs, p) == [s \in DOMAIN tk |-> tk[s] \/ s \in slots_under(hs, p)]

\* C31: find_pilot returns the smallest pilot under which no hash of the
\* bucket falls on a taken slot and no two of them fall on the same slot, and
\* then exactly the bucket's slots under it become taken and it is recorded
\* as the bucket's pilot; when there is none it returns None and leaves the
\* taken bitmap as it was.
C31_FindPilot ==
    [][at_pop =>
          LET hs   == bp.bucket[popped]
              tk   == taken[bp.part]
              fp   == find_pilot(popped, tk)
              free == free_pilots(hs, tk)
          IN  IF free = {}
              THEN fp.p = NoPilot /\ fp.taken = tk
              ELSE /\ fp.p = SetMin(free)
                   /\ fp.taken = with_slots(tk, hs, SetMin(free))
                   /\ ~too_many_evictions =>
                         /\ pilots'[bp.part * ph.buckets + popped] = SetMin(free)
                         /\ taken'[bp.part] = with_slots(tk, hs, SetMin(free))
      ]_vars

\* find_pilot passed over a pilot with free slots on which two keys of the
\* bucket fall together, and took a later one
C31_Witness ==
    /\ at_pop
    /\ find_pilot(popped, taken[bp.part]).p # NoPilot
    /\ \E p \in 0 .. kmax - 1 :
          /\ p < find_pilot(popped, taken[bp.part]).p
          /\ duplicate_slots(popped, p)
          /\ \A s \in slots_under(bp.bucket[popped], p) : ~taken[bp.part][s]


\* the step places the popped bucket on the eviction path of build_part
evicting_step ==
    /\ at_pop
    /\ ~too_many_evictions
    /\ find_pilot(popped, taken[bp.part]).p = NoPilot
    /\ pc' = "part"

\* the pilot the step records for the popped bucket
chosen == pilots'[bp.part * ph.buckets + popped]

\* the buckets that own a slot of the popped bucket under pilot p
victims(p) ==
    {bp.slots[s] : s \in slots_under(bp.bucket[popped], p)} \ {BucketIdxNONE}

\* the sum of size(b')^2 over the buckets b' of B
RECURSIVE sum_of_squares(_)
sum_of_squares(B) ==
    IF B = {} THEN 0
    ELSE LET b2 == CHOOSE x \in B : TRUE
         IN  bucket_len(b2) * bucket_len(b2) + sum_of_squares(B \ {b2})

\* the sum of size(b')^2 over the colliding buckets b' under pilot p
score_per_bucket(p) == sum_of_squares(victims(p))

\* the sum over the hashes of the popped bucket of size(b')^2 of the bucket
\* b' that owns the hash's slot under pilot p: a bucket met on two slots
\* counts twice
RECURSIVE score_per_slot_from(_, _)
score_per_slot_from(sl, i) ==
    IF i > Len(sl) THEN 0
    ELSE (IF bp.slots[sl[i]] = BucketIdxNONE THEN 0
          ELSE bucket_len(bp.slots[sl[i]]) * bucket_len(bp.slots[sl[i]]))
         + score_per_slot_from(sl, i + 1)

score_per_slot(p) == score_per_slot_from(slots_for_bucket(popped, p), 1)

\* pilot p puts the hashes of the popped bucket on pairwise distinct slots
distinct_slots(p) ==
    Cardinality(slots_under(bp.bucket[popped], p)) = Len(bp.bucket[popped])

\* no victim of pilot p is one of the buckets in recent
spares_recent(p) == \A r \in DOMAIN bp.recent : bp.recent[r] \notin victims(p)

\* after the step the victims of the chosen pilot own no slot and are on the
\* stack, and the popped bucket owns its slots under the chosen pilot
evicts_and_places ==
    /\ \A b2 \in victims(chosen) :
          /\ \A s \in DOMAIN bp'.slots : bp'.slots[s] # b2
          /\ \E j \in DOMAIN bp'.stack : bp'.stack[j] = <<bucket_len(b2), b2>>
    /\ \A s \in DOMAIN bp.slots :
          IF s \in slots_under(bp.bucket[popped], chosen)
          THEN bp'.slots[s] = popped /\ taken'[bp.part][s]
          ELSE IF bp.slots[s] \in victims(chosen)
          THEN bp'.slots[s] = BucketIdxNONE /\ ~taken'[bp.part][s]
          ELSE bp'.slots[s] = bp.slots[s] /\ taken'[bp.part][s] = taken[bp.part][s]

\* C32 as stated: the chosen pilot puts the hashes of b on pairwise distinct
\* slots and minimises the sum of size(b')^2 over the colliding buckets among
\* all pilots that do so; the colliding buckets are evicted and b is placed.
C32_Original ==
    [][evicting_step =>
          /\ distinct_slots(chosen)
          /\ \A p \in 0 .. kmax - 1 :
                distinct_slots(p) => score_per_bucket(chosen) <= score_per_bucket(p)
          /\ evicts_and_places
      ]_vars

\* C32: the chosen pilot puts the hashes of b on pairwise distinct slots,
\* has no victim among the buckets of recent, and among the pilots of which
\* both are true it minimises the sum, over the hashes of b, of size(b')^2
\* of the bucket b' owning the hash's slot; the colliding buckets are evicted
\* (their slots cleared, the buckets pushed on the stack) and b is placed.
C32_MinimalAmongAllowed ==
    [][evicting_step =>
          /\ distinct_slots(chosen)
          /\ spares_recent(chosen)
          /\ \A p \in 0 .. kmax - 1 :
                (distinct_slots(p) /\ spares_recent(p)) =>
                    score_per_slot(chosen) <= score_per_slot(p)
          /\ evicts_and_places
      ]_vars

\* the eviction path has a pilot it may choose under which one bucket owns
\* two slots of the popped bucket, and a pilot of smaller sum that it must
\* pass over because a victim is in recent
C32_Witness ==
    /\ at_pop
    /\ find_pilot(popped, taken[bp.part]).p = NoPilot
    /\ \E p1, p2 \in 0 .. kmax - 1 :
          /\ distinct_slots(p1) /\ spares_recent(p1)
          /\ score_per_slot(p1) > score_per_bucket(p1)
          /\ distinct_slots(p2) /\ ~spares_recent(p2)
          /\ score_per_bucket(p2) < score_per_bucket(p1)

\* ---------------------------------------------------------------------
\* The recent guard of build_part, with the history of the chain
\* ---------------------------------------------------------------------

\* the pops of the current chain so far: the first pop of a chain is the one
\* that finds evictions = 0
history == IF bp.evictions = 0 THEN <<>> ELSE chain

\* the popped bucket is placed by the eviction path
slow_path == find_pilot(popped, taken[bp.part]).p = NoPilot

\* what the step does, as an entry of the history
this_pop ==
    [b       |-> popped,
     slow    |-> slow_path,
     evicted |-> IF slow_path THEN victims(chosen) ELSE {}]

\* the first index of the shortest suffix of h[1 .. j] that holds k entries of
\* the eviction path, 1 when there are fewer
RECURSIVE keep_from(_, _, _)
keep_from(h, j, k) ==
    IF j = 0 THEN 1
    ELSE IF h[j].slow /\ k = 1 THEN j
    ELSE keep_from(h, j - 1, IF h[j].slow THEN k - 1 ELSE k)

\* one iteration of 'b, with the history of the chain kept as far back as the
\* last recent.len() placements of the eviction path
PopBucketLogged ==
    /\ stack_pop
    /\ chain' = IF pc' = "part"
                THEN LET h == Append(history, this_pop)
                     IN  SubSeq(h, keep_from(h, Len(h), RecentLen), Len(h))
                ELSE <<>>
    /\ UNCHANGED <<keys_len, fileVars, map, store, orig, th, sh, parked, twin, saves>>

NextRecent ==
    \/ DuplicateHashes
    \/ BuildShard
    \/ SkipEmptyBucket
    \/ StartBucket
    \/ PopBucketLogged
    \/ PartDone
    \/ ShardsDone

\* the key sets of the builds whose chains place a bucket on the hot path
\* between two placements of the eviction path
RecentKeys == 0 .. MaxKey + 5

InitRecent ==
    /\ keys \in {K \in SUBSET RecentKeys : Cardinality(K) \in {MaxN + 5, MaxN + 6}}
    /\ keys_len = Cardinality(keys)
    /\ hx \in Hashers
    /\ params \in ParamSets
    /\ api = "build_part"
    /\ \E s \in Seeds : ph = [init(keys_len, params) EXCEPT !.seed = s]
    /\ tries = 1
    /\ pilots = [b \in 0 .. ph.buckets_total - 1 |-> 0]
    /\ taken = [pt \in 0 .. ph.parts - 1 |-> [s \in 0 .. ph.slots - 1 |-> FALSE]]
    /\ shard = 0
    /\ bp = NoPart
    /\ pc = "shard"
    /\ outcome = "none"
    /\ q = NoQuery
    /\ NoPersistence
    /\ NoStoreCall

SpecRecent == InitRecent /\ [][NextRecent]_vars

\* the buckets evicted by the last recent.len() pops of the chain
evicted_lately ==
    UNION {history[j].evicted :
               j \in {i \in DOMAIN history : i > Len(history) - RecentLen}}

\* the pops of the chain that placed their bucket on the eviction path
slow_pops == {j \in DOMAIN history : history[j].slow}

\* the chain's first bucket while fewer than recent.len() buckets were placed
\* on the eviction path, and the buckets of the last recent.len() such
\* placements
guarded ==
    IF history = <<>> THEN {popped}
    ELSE {history[j].b : j \in slow_pops}
         \cup (IF Cardinality(slow_pops) < RecentLen THEN {history[1].b} ELSE {})

C33_RingWraps == ~(at_pop /\ Cardinality(slow_pops) >= RecentLen /\ Len(history) > RecentLen)

\* the step gives up the popped bucket with "Indistinguishable hashes in
\* bucket!": the eviction path found no pilot it may choose
declares_indistinguishable ==
    /\ at_pop
    /\ ~too_many_evictions
    /\ slow_path
    /\ pc' = "seed"

\* C34: build_part declares the hashes of a bucket indistinguishable only
\* when every pilot puts two hashes of the bucket on one slot.
C34_OnlyWhenIndistinguishable ==
    [][declares_indistinguishable => \A p \in 0 .. kmax - 1 : ~distinct_slots(p)]_vars

\* ---------------------------------------------------------------------
\* The fill loop of the stores
\* ---------------------------------------------------------------------

\* the step is the fill loop of new_with_hasher
filling == Returned /\ api = "store" /\ ~store.built

\* the pairs of the input map that the loop writes at position i
writes_at(i) == {k \in keys : i \in index(k)}

\* C35: while a store is filled from its input map every position in
\* [0, n) of the values and keys vectors is written exactly once: every
\* index is below n, no position is written twice and none is left out, so
\* no entry is uninitialised or overwritten and each key and its value sit
\* at the key's index.
C35_FillWritesEachOnce ==
    [][filling =>
          /\ \A k \in keys : \E i \in 0 .. keys_len - 1 : index(k) = {i}
          /\ \A i \in 0 .. keys_len - 1 : Cardinality(writes_at(i)) = 1
          /\ outcome' # "ub"
          /\ store'.built /\ store'.len = keys_len
          /\ \A i \in 0 .. keys_len - 1 :
                /\ store'.keys[i] \in writes_at(i)
                /\ store'.values[i] = map[store'.keys[i]]
      ]_vars

\* a store of two or more pairs was filled, one of them through the remap
\* table
C35_Witness ==
    /\ store.built
    /\ api = "store"
    /\ store.len >= 2
    /\ \E k \in keys : \E sl \in index_no_remap(k) : sl >= ph.n
    /\ \E k1, k2 \in keys : map[k1] # map[k2]

\* ---------------------------------------------------------------------
\* Slot ownership in build_part
\* ---------------------------------------------------------------------

\* build_part is at work on a part
in_part == pc = "part" /\ bp.active

\* the buckets on the work heap
queued == {bp.stack[j][2] : j \in DOMAIN bp.stack}

\* the buckets with keys whose chain has started
started == {bp.order[j] : j \in {j2 \in DOMAIN bp.order :
                                    j2 < bp.i /\ bucket_len(bp.order[j2]) > 0}}

\* the placed buckets: started and not waiting on the heap
placed == started \ queued

\* the slots the current pilot of bucket b maps its hashes to
slots_of(b) == slots_under(bp.bucket[b], pilots[bp.part * ph.buckets + b])

\* the placed buckets that have a hash on slot s
owners(s) == {b \in placed : s \in slots_of(b)}

\* the step ends build_part with Some
returns_some ==
    /\ in_part
    /\ pc' = "shard" \/ (pc' = "part" /\ bp'.part # bp.part)

\* C36: each time the next bucket is taken from the work heap (and between
\* the chains), a slot is marked taken exactly when exactly one placed bucket
\* owns it, every placed bucket owns exactly the pairwise distinct slots its
\* current pilot maps its hashes to, and no slot is owned by two buckets;
\* when build_part returns success the heap is empty and every bucket with
\* keys is placed.
C36_SlotOwnership ==
    [][in_part =>
          /\ \A s \in DOMAIN bp.slots :
                /\ taken[bp.part][s] <=> Cardinality(owners(s)) = 1
                /\ Cardinality(owners(s)) <= 1
                /\ bp.slots[s] \in placed \cup {BucketIdxNONE}
          /\ \A b \in placed :
                /\ Cardinality(slots_of(b)) = Len(bp.bucket[b])
                /\ {s \in DOMAIN bp.slots : bp.slots[s] = b} = slots_of(b)
          /\ returns_some =>
                /\ bp.stack = <<>>
                /\ placed = {b \in DOMAIN bp.bucket : bucket_len(b) > 0}
      ]_vars

\* a bucket is taken from the heap after an eviction, while placed buckets
\* own slots and the evicted bucket's slots are free again
C36_Witness ==
    /\ at_pop
    /\ bp.evictions > 0
    /\ Cardinality(placed) >= 2
    /\ \E s \in DOMAIN bp.slots : ~taken[bp.part][s]

\* the step fails assert!(b2 != b)
assertion_fails == in_part /\ outcome' = "panic"

\* C37: a bucket is never queued twice in the eviction heap and a queued
\* bucket owns no slot; the bucket being placed is never found as the owner
\* of one of its own target slots, so assert!(b2 != b) never fails.
C37_QueuedOnceOwningNothing ==
    [][in_part =>
          /\ Cardinality(queued) = Len(bp.stack)
          /\ \A s \in DOMAIN bp.slots : bp.slots[s] \notin queued
          /\ \A j \in DOMAIN bp.stack : bp.stack[j][1] = bucket_len(bp.stack[j][2])
          /\ at_pop => \A p \in 0 .. kmax - 1 : popped \notin victims(p)
          /\ ~assertion_fails
      ]_vars

\* two buckets wait on the heap after two or more evictions, and the eviction
\* path is about to place one of them
C37_Witness ==
    /\ at_pop
    /\ Len(bp.stack) >= 2
    /\ bp.evictions >= 2
    /\ slow_path
    /\ ~too_many_evictions

\* ---------------------------------------------------------------------
\* The reductions of a hash to its shard, part and bucket
\* ---------------------------------------------------------------------

\* the 64-bit hash values, at the width of the model
HashValues == 0 .. Word - 1

\* shard(hx), part(hx) and bucket(hx) of one hash on the layout init made
Reduce ==
    /\ pc = "done"
    /\ outcome = "init"
    /\ \E h \in HashValues :
          q' = [op |-> "reduce", h |-> h, shard |-> shard_of(h), part |-> part(h),
                bucket |-> bucket(h)]
    /\ UNCHANGED <<storeVars, keys, hx, api, params, ph, tries, pilots, taken, shard, bp, pc,
                   outcome>>

NextReduce == CallInit \/ Reduce

SpecReduce == InitLayout /\ [][NextReduce]_vars

\* the part of a hash lies in the part range of its shard, and with the
\* Linear bucket function its bucket lies in the bucket range of its part
nested(sh_h, part_h, bucket_h) ==
    /\ ph.parts_per_shard >= 1
    /\ part_h \div ph.parts_per_shard = sh_h
    /\ params.bucket_fn = "Linear" =>
          /\ ph.buckets >= 1
          /\ bucket_h \div ph.buckets = part_h

\* C38: the nested fast reductions agree: for every hash value h,
\* part(h) div parts_per_shard = shard(h), and with the Linear bucket
\* function bucket(h) div buckets_per_part = part(h).
C38_NestedReductions ==
    outcome = "init" =>
        /\ \A h \in HashValues : nested(shard_of(h), part(h), bucket(h))
        /\ q.op = "reduce" => nested(q.shard, q.part, q.bucket)

\* the reductions agree on every layout in which parts is parts_per_shard
\* times shards
NestedReductionsOnWholeParts ==
    (outcome = "init" /\ ph.parts = ph.parts_per_shard * ph.shards /\ ph.parts >= 1) =>
        /\ \A h \in HashValues : nested(shard_of(h), part(h), bucket(h))
        /\ q.op = "reduce" => nested(q.shard, q.part, q.bucket)

\* a hash is reduced on a layout of several shards with several parts each
NestedReductionsWitness ==
    /\ q.op = "reduce"
    /\ ph.shards >= 2
    /\ ph.parts_per_shard >= 2
    /\ q.shard >= 1
    /\ q.part % ph.parts_per_shard >= 1

\* ---------------------------------------------------------------------
\* Two save_to_file calls on the same target path, side by side.  Both
\* AtomicWriter::new calls derive the same temp_path from the target.  The
\* directory maps the two paths to files; an open File keeps the file it
\* was opened on and its own position, whatever the paths name later.
\* ---------------------------------------------------------------------
Savers == 1 .. 2

\* the PersistedData of a store: as many values as keys
SaveData == {d \in FileData : Len(d.keys) = Len(d.values)}

\* the locals of write_with_integrity before AtomicWriter::new
NewSave(d) ==
    [pc |-> "start", data |-> d, file |-> 0, pos |-> 0, buf |-> <<>>, result |-> "none"]

InitSaves ==
    /\ \E d1, d2 \in SaveData :
          saves = [active |-> TRUE, files |-> <<>>, temp_path |-> 0, final_path |-> 0,
                   call |-> <<NewSave(d1), NewSave(d2)>>]
    /\ NoPersistence
    /\ map = <<>>
    /\ store = NoStore
    /\ orig = NoOrig
    /\ th = [t \in Threads |-> IdleThread]
    /\ sh = NoShards
    /\ parked = NoParked
    /\ twin = NoTwin
    /\ chain = <<>>
    /\ keys = {}
    /\ keys_len = 0
    /\ hx = "FastIntHash"
    /\ api = "save_to_file"
    /\ params = default_fast
    /\ ph = EmptyPtrHash
    /\ tries = 0
    /\ pilots = <<>>
    /\ taken = <<>>
    /\ shard = 0
    /\ bp = NoPart
    /\ pc = "start"
    /\ outcome = "none"
    /\ q = NoQuery

\* write(2) of bytes at position pos of the file f; a gap is read as zeros
write_at(f, pos, bytes) ==
    [i \in 1 .. Max(Len(f), pos + Len(bytes)) |->
        IF i > pos /\ i <= pos + Len(bytes) THEN bytes[i - pos]
        ELSE IF i <= Len(f) THEN f[i]
        ELSE 0]

\* BufWriter::write_all: what goes to the file and what stays in the buffer
write_all(buf, bytes) ==
    LET flush_first == Len(buf) + Len(bytes) > BufCapacity
        out == IF flush_first THEN buf ELSE <<>>
        b1  == IF flush_first THEN <<>> ELSE buf
    IN  IF Len(bytes) >= BufCapacity
        THEN [out |-> out \o bytes, buf |-> b1]
        ELSE [out |-> out, buf |-> b1 \o bytes]

\* the call c writes out at its position
written(c, out) ==
    [saves.files EXCEPT ![saves.call[c].file] = write_at(@, saves.call[c].pos, out)]

\* AtomicWriter::new of call c: OpenOptions write, create, truncate on
\* temp_path
SaveNew(c) ==
    /\ saves.active
    /\ saves.call[c].pc = "start"
    /\ LET made == saves.temp_path = 0
           f    == IF made THEN Len(saves.files) + 1 ELSE saves.temp_path
       IN  saves' = [saves EXCEPT
                       !.files = IF made THEN Append(saves.files, <<>>)
                                 ELSE [saves.files EXCEPT ![f] = <<>>],
                       !.temp_path = f,
                       !.call[c] = [@ EXCEPT !.pc = "new", !.file = f, !.pos = 0]]

\* writer.write_all(&header_bytes), then writer.write_all(&data_bytes)
SaveWrite(c) ==
    /\ saves.active
    /\ saves.call[c].pc \in {"new", "header"}
    /\ LET bytes == IF saves.call[c].pc = "new" THEN header_bytes(saves.call[c].data)
                    ELSE serialize_data(saves.call[c].data)
           w     == write_all(saves.call[c].buf, bytes)
       IN  saves' = [saves EXCEPT
                       !.files = written(c, w.out),
                       !.call[c] = [@ EXCEPT
                                      !.pc = IF @ = "new" THEN "header" ELSE "data",
                                      !.pos = @ + Len(w.out),
                                      !.buf = w.buf]]

\* commit: self.writer.flush()
SaveFlush(c) ==
    /\ saves.active
    /\ saves.call[c].pc = "data"
    /\ saves' = [saves EXCEPT
                    !.files = written(c, saves.call[c].buf),
                    !.call[c] = [@ EXCEPT !.pc = "flushed",
                                          !.pos = @ + Len(saves.call[c].buf),
                                          !.buf = <<>>]]

\* commit: sync_all()
SaveSync(c) ==
    /\ saves.active
    /\ saves.call[c].pc = "flushed"
    /\ saves' = [saves EXCEPT !.call[c].pc = "synced"]

\* commit: std::fs::rename(&self.temp_path, &self.final_path); when nothing
\* is at temp_path it fails, ? returns the error and the writer is dropped
SaveRename(c) ==
    /\ saves.active
    /\ saves.call[c].pc = "synced"
    /\ IF saves.temp_path = 0
       THEN saves' = [saves EXCEPT !.call[c] = [@ EXCEPT !.pc = "returned",
                                                        !.result = "Err"]]
       ELSE saves' = [saves EXCEPT !.final_path = saves.temp_path,
                                   !.temp_path = 0,
                                   !.call[c].pc = "renamed"]

\* commit returns Ok(()): self is dropped, and Drop removes what is at
\* temp_path
SaveReturn(c) ==
    /\ saves.active
    /\ saves.call[c].pc = "renamed"
    /\ saves' = [saves EXCEPT !.temp_path = 0,
                              !.call[c] = [@ EXCEPT !.pc = "returned", !.result = "Ok"]]

SaveStep(c) ==
    /\ SaveNew(c) \/ SaveWrite(c) \/ SaveFlush(c) \/ SaveSync(c) \/ SaveRename(c)
           \/ SaveReturn(c)
    /\ UNCHANGED <<keys_len, fileVars, map, store, orig, th, sh, parked, twin, chain, phVars>>

NextSaves == \E c \in Savers : SaveStep(c)

SpecSaves == InitSaves /\ [][NextSaves]_vars

\* both calls have returned
both_returned == saves.active /\ \A c \in Savers : saves.call[c].pc = "returned"

\* the file at the target path is the complete image of one of the calls
one_complete_image ==
    /\ saves.final_path # 0
    /\ \E c \in Savers : saves.files[saves.final_path] = image(saves.call[c].data)

\* C39: when two save_to_file calls to the same target path run side by
\* side, under every interleaving the file finally at the target path is the
\* complete image written by one of the two calls: never a mix of both, and
\* never missing after both calls reported success.
C39_OneCompleteImage ==
    both_returned =>
        /\ saves.final_path # 0 => one_complete_image
        /\ (\A c \in Savers : saves.call[c].result = "Ok") => saves.final_path # 0
        /\ (\E c \in Savers : saves.call[c].result = "Ok") => one_complete_image

\* a call that returns before the other has started leaves its complete
\* image at the target and reports success
SaveAlone ==
    \A c \in Savers :
        (saves.active /\ saves.call[c].pc = "returned"
            /\ \A c2 \in Savers \ {c} : saves.call[c2].pc = "start")
        => /\ saves.call[c].result = "Ok"
           /\ saves.final_path # 0
           /\ saves.files[saves.final_path] = image(saves.call[c].data)

====
